---------------------------- MODULE Spec2Model ----------------------------
(***************************************************************************)
(* Timing engine (engine/timing.ts) and deterministic runtime              *)
(* (engine/runtime.ts) of the route plotter.                               *)
(*                                                                         *)
(* Numbers.  A JavaScript number is modelled as an exact fraction          *)
(* [n |-> numerator, d |-> denominator] in lowest terms with d > 0, plus   *)
(* the three non-finite values a division by zero produces:                *)
(*   d = 0, n = 1  is +Infinity;  d = 0, n = -1  is -Infinity;             *)
(*   d = 0, n = 0  is NaN.                                                 *)
(* Rounding of IEEE doubles is not modelled: arithmetic on finite values   *)
(* is exact.                                                               *)
(***************************************************************************)
EXTENDS Integers, Sequences, FiniteSets, TLC

VARIABLES
    rt,         \* the DeterministicRuntime object of the main machine
    lastOp,     \* history: name of the last method called on rt
    build,      \* timing harness: inputs of buildTimingMap and the map built
    query,      \* timing harness: the last pair of progress queries
    updStart,   \* update harness: the runtime before the first update()
    stepTrace,  \* update harness: states left by each step() inside update()
    rtB,        \* run harness: a second, fresh runtime
    run         \* run harness: script position and recorded results

vars == <<rt, lastOp, build, query, updStart, stepTrace, rtB, run>>

---------------------------------------------------------------------------
(* Numbers *)

Abs(i) == IF i < 0 THEN -i ELSE i

RECURSIVE GCD(_, _)
GCD(a, b) == IF b = 0 THEN a ELSE GCD(b, a % b)

\* The fraction n/d for d # 0, in lowest terms with a positive denominator.
Frac(n, d) ==
    LET g == GCD(Abs(n), Abs(d))
        s == IF d < 0 THEN -1 ELSE 1
    IN  [n |-> (s * n) \div g, d |-> (s * d) \div g]

Num(i) == [n |-> i, d |-> 1]

NaN  == [n |-> 0, d |-> 0]
PInf == [n |-> 1, d |-> 0]
NInf == [n |-> -1, d |-> 0]

IsFinite(a) == a.d # 0
IsNaN(a) == a = NaN
Sign(a) == IF a.n > 0 THEN 1 ELSE IF a.n < 0 THEN -1 ELSE 0

\* a + b
Add(a, b) ==
    IF IsFinite(a) /\ IsFinite(b) THEN Frac(a.n * b.d + b.n * a.d, a.d * b.d)
    ELSE IF IsNaN(a) \/ IsNaN(b) THEN NaN
    ELSE IF IsFinite(a) THEN b
    ELSE IF IsFinite(b) THEN a
    ELSE IF a = b THEN a ELSE NaN

Neg(a) == [n |-> -a.n, d |-> a.d]

\* a - b
Sub(a, b) == Add(a, Neg(b))

\* a * b
Mul(a, b) ==
    IF IsFinite(a) /\ IsFinite(b) THEN Frac(a.n * b.n, a.d * b.d)
    ELSE IF IsNaN(a) \/ IsNaN(b) THEN NaN
    ELSE [n |-> Sign(a) * Sign(b), d |-> 0]

\* a / b, with x/0 = +-Infinity and 0/0 = NaN
Div(a, b) ==
    IF IsFinite(a) /\ IsFinite(b)
    THEN IF b.n # 0 THEN Frac(a.n * b.d, a.d * b.n)
         ELSE [n |-> Sign(a), d |-> 0]
    ELSE IF IsNaN(a) \/ IsNaN(b) THEN NaN
    ELSE IF IsFinite(a) THEN Num(0)
    ELSE IF IsFinite(b) THEN [n |-> Sign(a) * (IF b.n < 0 THEN -1 ELSE 1), d |-> 0]
    ELSE NaN

\* a < b; every comparison with NaN is false
Lt(a, b) ==
    IF IsNaN(a) \/ IsNaN(b) THEN FALSE
    ELSE IF IsFinite(a) /\ IsFinite(b) THEN a.n * b.d < b.n * a.d
    ELSE IF IsFinite(a) THEN b = PInf
    ELSE IF IsFinite(b) THEN a = NInf
    ELSE a = NInf /\ b = PInf

\* a === b
Eq(a, b) == ~IsNaN(a) /\ a = b

Le(a, b) == Lt(a, b) \/ Eq(a, b)
Ge(a, b) == Le(b, a)
Gt(a, b) == Lt(b, a)

\* Math.max(a, b), Math.min(a, b): NaN if either argument is NaN
Max(a, b) == IF IsNaN(a) \/ IsNaN(b) THEN NaN ELSE IF Lt(a, b) THEN b ELSE a
Min(a, b) == IF IsNaN(a) \/ IsNaN(b) THEN NaN ELSE IF Lt(b, a) THEN b ELSE a

\* Math.floor and Math.ceil of a finite number, as integers
FloorInt(a) == a.n \div a.d
CeilInt(a) == -((-a.n) \div a.d)

\* Math.floor(a)
Floor(a) == IF IsFinite(a) THEN Num(FloorInt(a)) ELSE a

\* Math.sqrt of an integer that is a perfect square
Sqrt(i) == CHOOSE r \in 0..i : r * r = i

---------------------------------------------------------------------------
(* Geometry (engine/geometry.ts): what the timing engine uses of it *)

\* An optional value (null, undefined or a value) is a sequence of length
\* 0 or 1
Null == <<>>
Some(x) == <<x>>
Val(o) == o[1]

\* An absent optional argument (pathPoints?: Point[])
NoPath == Null

\* Mutant of distance: the coordinate differences are added, not squared
distance_Signed(a, b) ==
    Num((b.x - a.x) + (b.y - a.y))

\* distance(a, b) for points with integer coordinates
distance(a, b) ==
    LET dx == b.x - a.x
        dy == b.y - a.y
    IN  Num(Sqrt(dx * dx + dy * dy))

\* buildArcLengthTable(points): cumulative distance per point
RECURSIVE ArcLengthLoop(_, _, _, _)
ArcLengthLoop(points, i, totalDistance, distances) ==
    IF i > Len(points) THEN distances
    ELSE LET segmentLength == distance(points[i - 1], points[i])
             total == Add(totalDistance, segmentLength)
         IN  ArcLengthLoop(points, i + 1, total, Append(distances, total))

buildArcLengthTable(points) ==
    IF Len(points) = 0 THEN <<>>
    ELSE ArcLengthLoop(points, 2, Num(0), <<Num(0)>>)

---------------------------------------------------------------------------
(* Timing engine (engine/timing.ts) *)

\* Nominal seconds per major-to-major segment in constantTime mode
SegmentSeconds == 3

\* quadraticEaseInOut(t)
quadraticEaseInOut(t) ==
    IF Lt(t, Frac(1, 2))
    THEN Mul(Mul(Num(2), t), t)
    ELSE Add(Num(-1), Mul(Sub(Num(4), Mul(Num(2), t)), t))

\* Mutant of applyEasing: the first and the last segment are eased too
applyEasing_EverySegment(progress, useEasing, segmentIndex, totalSegments) ==
    IF ~useEasing THEN progress ELSE quadraticEaseInOut(progress)

\* applyEasing(progress, useEasing, segmentIndex, totalSegments);
\* segmentIndex counts from 0
applyEasing(progress, useEasing, segmentIndex, totalSegments) ==
    IF ~useEasing THEN progress
    ELSE IF segmentIndex = 0 \/ segmentIndex = totalSegments - 1 THEN progress
    ELSE quadraticEaseInOut(progress)

\* waypoints.indexOf(wp), counting from 0 (waypoints are distinct objects,
\* told apart by their id)
IndexOf(seq, e) == (CHOOSE i \in 1..Len(seq) : seq[i] = e /\ \A j \in 1..(i - 1) : seq[j] # e) - 1

\* Mutant of IsMajor: every waypoint counts as a major
IsMajor_All(wp) == TRUE

IsMajor(wp) == wp.isMajor

\* Length of the path between two path indices (timing.ts lines 120-125)
RECURSIVE SegmentLength(_, _, _)
SegmentLength(pathPoints, j, endPathIndex) ==
    IF j >= endPathIndex THEN Num(0)
    ELSE Add(distance(pathPoints[j + 1], pathPoints[j + 2]),
             SegmentLength(pathPoints, j + 1, endPathIndex))

\* Mutant of PathIndex: the waypoint index is used as the path index
PathIndex_Waypoint(idx, waypoints, pathPoints) == idx

\* Math.floor((idx / (waypoints.length - 1)) * (pathPoints.length - 1))
PathIndex(idx, waypoints, pathPoints) ==
    FloorInt(Mul(Div(Num(idx), Num(Len(waypoints) - 1)), Num(Len(pathPoints) - 1)))

\* Mutant of SegmentDuration: constantTime gives the nominal duration to
\* every waypoint-to-waypoint leg, minors included
SegmentDuration_PerWaypoint(waypoints, config, pathPoints, startIdx, endIdx) ==
    IF config.mode = "constantTime" THEN Num(SegmentSeconds * (endIdx - startIdx))
    ELSE IF pathPoints # NoPath
         THEN Div(SegmentLength(Val(pathPoints),
                                PathIndex(startIdx, waypoints, Val(pathPoints)),
                                PathIndex(endIdx, waypoints, Val(pathPoints))),
                  config.baseSpeedPxPerSec)
         ELSE Num(0)

\* The motion duration of the segment from waypoint startIdx to endIdx
SegmentDuration(waypoints, config, pathPoints, startIdx, endIdx) ==
    IF config.mode = "constantTime" THEN Num(SegmentSeconds)
    ELSE IF pathPoints # NoPath
         THEN Div(SegmentLength(Val(pathPoints),
                                PathIndex(startIdx, waypoints, Val(pathPoints)),
                                PathIndex(endIdx, waypoints, Val(pathPoints))),
                  config.baseSpeedPxPerSec)
         ELSE Num(0)

\* The loop of buildTimingMap over the pairs of consecutive majors;
\* i counts from 0
RECURSIVE BuildSegments(_, _, _, _, _, _, _)
BuildSegments(waypoints, config, pathPoints, majors, i, segments, totalDuration) ==
    IF i >= Len(majors) - 1
    THEN [segments |-> segments, totalDuration |-> totalDuration]
    ELSE LET startIdx == IndexOf(waypoints, majors[i + 1])
             endIdx == IndexOf(waypoints, majors[i + 2])
             segmentDuration == SegmentDuration(waypoints, config, pathPoints, startIdx, endIdx)
             hasPause == config.pauseMode # "none" /\ i < Len(majors) - 1
             pauseDuration == IF hasPause THEN config.pauseSeconds ELSE Num(0)
             segment == [startTime |-> totalDuration,
                         endTime |-> Add(totalDuration, segmentDuration),
                         duration |-> segmentDuration,
                         startProgress |-> Div(Num(i), Num(Len(majors) - 1)),
                         endProgress |-> Div(Num(i + 1), Num(Len(majors) - 1)),
                         startWaypointIndex |-> startIdx,
                         endWaypointIndex |-> endIdx,
                         hasPause |-> hasPause,
                         pauseDuration |-> pauseDuration]
         IN  BuildSegments(waypoints, config, pathPoints, majors, i + 1,
                           Append(segments, segment),
                           Add(totalDuration, Add(segmentDuration, pauseDuration)))

\* Mutant of buildTimingMap: the total duration stops at the end of the
\* last segment's motion
buildTimingMap_TotalAtLastEnd(waypoints, config, pathPoints) ==
    LET totalPathLength ==
            IF config.mode = "constantSpeed" /\ pathPoints # NoPath
            THEN LET distances == buildArcLengthTable(Val(pathPoints))
                 IN  distances[Len(distances)]
            ELSE Num(0)
        majors == SelectSeq(waypoints, IsMajor)
        built == IF Len(majors) < 2
                 THEN [segments |-> <<>>, totalDuration |-> Num(0)]
                 ELSE BuildSegments(waypoints, config, pathPoints, majors, 0, <<>>, Num(0))
    IN  [segments |-> built.segments,
         totalDuration |-> IF built.segments = <<>> THEN Num(0)
                           ELSE built.segments[Len(built.segments)].endTime,
         totalPathLength |-> totalPathLength,
         mode |-> config.mode,
         baseSpeed |-> config.baseSpeedPxPerSec]

\* buildTimingMap(waypoints, config, pathPoints?)
buildTimingMap(waypoints, config, pathPoints) ==
    LET totalPathLength ==
            IF config.mode = "constantSpeed" /\ pathPoints # NoPath
            THEN LET distances == buildArcLengthTable(Val(pathPoints))
                 IN  distances[Len(distances)]
            ELSE Num(0)
        majors == SelectSeq(waypoints, IsMajor)
        built == IF Len(majors) < 2
                 THEN [segments |-> <<>>, totalDuration |-> Num(0)]
                 ELSE BuildSegments(waypoints, config, pathPoints, majors, 0, <<>>, Num(0))
    IN  [segments |-> built.segments,
         totalDuration |-> built.totalDuration,
         totalPathLength |-> totalPathLength,
         mode |-> config.mode,
         baseSpeed |-> config.baseSpeedPxPerSec]

\* rebuildTimingMap(waypoints, config, pathPoints?)
rebuildTimingMap(waypoints, config, pathPoints) ==
    buildTimingMap(waypoints, config, pathPoints)

\* Mutant of InWindow: the end of the window belongs to it
InWindow_Closed(segment, time) ==
    Ge(time, segment.startTime) /\ Le(time, Add(segment.endTime, segment.pauseDuration))

\* time >= segment.startTime && time < segment.endTime + segment.pauseDuration
InWindow(segment, time) ==
    Ge(time, segment.startTime) /\ Lt(time, Add(segment.endTime, segment.pauseDuration))

\* The (1-based) positions of the segments whose window holds `time`
WindowsAt(map, time) == {i \in 1..Len(map.segments) : InWindow(map.segments[i], time)}

SetMin(S) == CHOOSE i \in S : \A j \in S : i <= j

\* Mutant of InPause: the pause window is left out of the test
InPause_NoWindow(segment, time) ==
    Ge(time, segment.endTime) /\ Lt(time, segment.endTime)

\* time >= segment.endTime && time < segment.endTime + segment.pauseDuration
InPause(segment, time) ==
    Ge(time, segment.endTime) /\ Lt(time, Add(segment.endTime, segment.pauseDuration))

\* getNormalizedProgressAtTime(map, time)
getNormalizedProgressAtTime(map, time0) ==
    IF Len(map.segments) = 0 THEN Num(0)
    ELSE LET time == Max(Num(0), Min(time0, map.totalDuration))
             found == WindowsAt(map, time)
             idx == IF found = {} THEN 1 ELSE SetMin(found)
             currentSegment == map.segments[idx]
         IN  IF InPause(currentSegment, time)
             THEN currentSegment.endProgress
             ELSE LET segmentTime == Sub(time, currentSegment.startTime)
                      segmentProgress == Div(segmentTime, currentSegment.duration)
                      easedProgress == applyEasing(segmentProgress, TRUE, idx - 1,
                                                   Len(map.segments))
                  IN  Add(currentSegment.startProgress,
                          Mul(Sub(currentSegment.endProgress, currentSegment.startProgress),
                              easedProgress))

\* The (1-based) positions of the segments whose progress span holds `progress`
SpansAt(map, progress) ==
    {i \in 1..Len(map.segments) :
        Ge(progress, map.segments[i].startProgress)
        /\ Le(progress, map.segments[i].endProgress)}

\* getTimeAtNormalizedProgress(map, progress)
getTimeAtNormalizedProgress(map, progress0) ==
    IF Len(map.segments) = 0 THEN Num(0)
    ELSE LET progress == Max(Num(0), Min(progress0, Num(1)))
             found == SpansAt(map, progress)
             currentSegment == map.segments[IF found = {} THEN 1 ELSE SetMin(found)]
             segmentProgress == Div(Sub(progress, currentSegment.startProgress),
                                    Sub(currentSegment.endProgress,
                                        currentSegment.startProgress))
         IN  Add(currentSegment.startTime, Mul(segmentProgress, currentSegment.duration))

\* getCurrentSegment(map, time) as the 0-based index of the segment returned,
\* -1 for null (the caller's segments.indexOf(segment))
getCurrentSegment(map, time) ==
    IF Len(map.segments) = 0 THEN -1
    ELSE LET found == WindowsAt(map, time)
         IN  IF found = {} THEN Len(map.segments) - 1 ELSE SetMin(found) - 1

---------------------------------------------------------------------------
(* Deterministic runtime (engine/runtime.ts).  Every method is a function  *)
(* from the runtime object r to the runtime object it leaves.              *)

\* private timingMap: SegmentTimingMap | null = null
NoMap == Null

\* new DeterministicRuntime(config)
NewRuntime(config) ==
    [config |-> config,
     timingMap |-> NoMap,
     state |-> [time |-> Num(0),
                normalizedProgress |-> Num(0),
                currentSegmentIndex |-> 0,
                isPlaying |-> FALSE,
                speed |-> Num(1),
                frame |-> 0,
                fps |-> config.fps],
     accumulatedTime |-> Num(0),
     lastTimestamp |-> Null]

\* Mutant of reset: the installed map's segment list is emptied as well
reset_ClearsSegments(r) ==
    [r EXCEPT !.state.time = Num(0),
              !.state.normalizedProgress = Num(0),
              !.state.currentSegmentIndex = 0,
              !.state.frame = 0,
              !.accumulatedTime = Num(0),
              !.lastTimestamp = Null,
              !.timingMap = IF @ = NoMap THEN @ ELSE Some([Val(@) EXCEPT !.segments = <<>>])]

\* Mutant of reset: playback is stopped as well
reset_StopsPlayback(r) ==
    [r EXCEPT !.state.time = Num(0),
              !.state.normalizedProgress = Num(0),
              !.state.currentSegmentIndex = 0,
              !.state.frame = 0,
              !.state.isPlaying = FALSE,
              !.accumulatedTime = Num(0),
              !.lastTimestamp = Null]

\* reset()
reset(r) ==
    [r EXCEPT !.state.time = Num(0),
              !.state.normalizedProgress = Num(0),
              !.state.currentSegmentIndex = 0,
              !.state.frame = 0,
              !.accumulatedTime = Num(0),
              !.lastTimestamp = Null]

\* setTimingMap(timingMap)
setTimingMap(r, timingMap) ==
    reset([r EXCEPT !.timingMap = Some(timingMap),
                    !.config.totalDuration = timingMap.totalDuration])

\* getFixedTimeStep()
getFixedTimeStep(r) == Div(Num(1), Num(r.config.fps))

\* The segment index that step() and the seeks store: that of
\* getCurrentSegment(map, time), or the old one when it returns null
SegmentIndexAt(r, time) ==
    LET segment == getCurrentSegment(Val(r.timingMap), time)
    IN  IF segment # -1 THEN segment ELSE r.state.currentSegmentIndex

\* Mutant of play: toggles the flag instead of setting it
play_Toggle(r) == [r EXCEPT !.state.isPlaying = ~@]

\* play()
play(r) == [r EXCEPT !.state.isPlaying = TRUE]

\* pause()
pause(r) == [r EXCEPT !.state.isPlaying = FALSE]

\* togglePlayPause()
togglePlayPause(r) == [r EXCEPT !.state.isPlaying = ~@]

\* Mutant of ReachedEnd: > in place of >=
ReachedEnd_Strict(time, totalDuration) == Gt(time, totalDuration)

\* this.state.time >= this.config.totalDuration
ReachedEnd(time, totalDuration) == Ge(time, totalDuration)

\* Mutant of step: the clock advances whether playing or not
step_WhilePaused(r) ==
    IF r.timingMap = NoMap THEN r
    ELSE LET dt == Mul(getFixedTimeStep(r), r.state.speed)
             advanced == Add(r.state.time, dt)
             atEnd == ReachedEnd(advanced, r.config.totalDuration)
             time == IF atEnd THEN r.config.totalDuration ELSE advanced
         IN  [r EXCEPT !.state.time = time,
                       !.state.isPlaying = IF atEnd THEN FALSE ELSE @,
                       !.state.normalizedProgress =
                           getNormalizedProgressAtTime(Val(r.timingMap), time),
                       !.state.currentSegmentIndex = SegmentIndexAt(r, time),
                       !.state.frame = @ + 1]

\* step()
step(r) ==
    IF r.timingMap = NoMap THEN r
    ELSE LET dt == Mul(getFixedTimeStep(r), r.state.speed)
         IN  IF r.state.isPlaying
             THEN LET advanced == Add(r.state.time, dt)
                      atEnd == ReachedEnd(advanced, r.config.totalDuration)
                      time == IF atEnd THEN r.config.totalDuration ELSE advanced
                  IN  [r EXCEPT !.state.time = time,
                                !.state.isPlaying = IF atEnd THEN FALSE ELSE @,
                                !.state.normalizedProgress =
                                    getNormalizedProgressAtTime(Val(r.timingMap), time),
                                !.state.currentSegmentIndex = SegmentIndexAt(r, time),
                                !.state.frame = @ + 1]
             ELSE r

\* Mutant of SeekClamped: the time is taken as given
SeekClamped_Unclamped(r, time0) ==
    [r EXCEPT !.state.time = time0,
              !.state.normalizedProgress =
                  getNormalizedProgressAtTime(Val(r.timingMap), time0),
              !.state.currentSegmentIndex = SegmentIndexAt(r, time0),
              !.state.frame = FloorInt(Mul(time0, Num(r.config.fps)))]

\* The body of seekToTime once the map is known to be installed
SeekClamped(r, time0) ==
    LET time == Max(Num(0), Min(time0, r.config.totalDuration))
    IN  [r EXCEPT !.state.time = time,
                  !.state.normalizedProgress =
                      getNormalizedProgressAtTime(Val(r.timingMap), time),
                  !.state.currentSegmentIndex = SegmentIndexAt(r, time),
                  !.state.frame = FloorInt(Mul(time, Num(r.config.fps)))]

\* Mutant of seekToTime: seeking also pauses playback
seekToTime_Pausing(r, time0) ==
    IF r.timingMap = NoMap THEN r ELSE pause(SeekClamped(r, time0))

\* seekToTime(time)
seekToTime(r, time0) ==
    IF r.timingMap = NoMap THEN r ELSE SeekClamped(r, time0)

\* seekToNormalizedProgress(progress)
seekToNormalizedProgress(r, progress0) ==
    IF r.timingMap = NoMap THEN r
    ELSE LET progress == Max(Num(0), Min(progress0, Num(1)))
             time == getTimeAtNormalizedProgress(Val(r.timingMap), progress)
         IN  [r EXCEPT !.state.normalizedProgress = progress,
                       !.state.time = time,
                       !.state.currentSegmentIndex = SegmentIndexAt(r, time),
                       !.state.frame = FloorInt(Mul(time, Num(r.config.fps)))]

\* Lower and upper limit of the speed multiplier, in quarters: 0.25 and 8.0
MinSpeedQuarters == 1
MaxSpeedQuarters == 32

\* Mutant of setSpeed: the multiplier is stored as given
setSpeed_Unclamped(r, speed) == [r EXCEPT !.state.speed = speed]

\* setSpeed(speed)
setSpeed(r, speed) ==
    [r EXCEPT !.state.speed = Max(Frac(MinSpeedQuarters, 4),
                                  Min(speed, Frac(MaxSpeedQuarters, 4)))]

\* seekToStart()
seekToStart(r) == seekToTime(r, Num(0))

\* seekToEnd()
seekToEnd(r) == seekToTime(r, r.config.totalDuration)

\* getCurrentState(): a copy of the state
getCurrentState(r) == r.state

\* getTotalFrames()
getTotalFrames(r) == CeilInt(Mul(r.config.totalDuration, Num(r.config.fps)))

\* getCurrentFrame()
getCurrentFrame(r) == r.state.frame

\* seekToFrame(frame)
seekToFrame(r, frame) == seekToTime(r, Div(Num(frame), Num(r.config.fps)))

\* What an observer of one step() sees: (frame, time, normalizedProgress)
Observed(r) == <<r.state.frame, r.state.time, r.state.normalizedProgress>>

\* The while loop of update(): step() once per whole fixed step accumulated.
\* Returns the runtime left and the states observed after each step().
RECURSIVE updateLoop(_, _)
updateLoop(r, trace) ==
    IF Ge(r.accumulatedTime, getFixedTimeStep(r))
    THEN LET stepped == step(r)
         IN  updateLoop([stepped EXCEPT !.accumulatedTime = Sub(@, getFixedTimeStep(r))],
                        Append(trace, Observed(stepped)))
    ELSE [rt |-> r, trace |-> trace]

\* Mutant of update: a leftover variable-step line also adds the elapsed
\* time to the clock before the fixed steps are taken
update_LeftoverAdvance(r, timestamp) ==
    IF ~r.state.isPlaying THEN [rt |-> r, trace |-> <<>>]
    ELSE LET last == IF r.lastTimestamp = Null THEN timestamp ELSE Val(r.lastTimestamp)
             deltaTime == Div(Sub(timestamp, last), Num(1000))
         IN  updateLoop([r EXCEPT !.lastTimestamp = Some(timestamp),
                                  !.state.time = Add(@, Mul(deltaTime, r.state.speed)),
                                  !.accumulatedTime =
                                      Add(@, Mul(deltaTime, r.state.speed))],
                        <<>>)

\* update(timestamp), timestamp in milliseconds
update(r, timestamp) ==
    IF ~r.state.isPlaying THEN [rt |-> r, trace |-> <<>>]
    ELSE LET last == IF r.lastTimestamp = Null THEN timestamp ELSE Val(r.lastTimestamp)
             deltaTime == Div(Sub(timestamp, last), Num(1000))
         IN  updateLoop([r EXCEPT !.lastTimestamp = Some(timestamp),
                                  !.accumulatedTime =
                                      Add(@, Mul(deltaTime, r.state.speed))],
                        <<>>)

---------------------------------------------------------------------------
(* Inputs *)

\* Frames per second of the runtime under test
Fps == 1

\* step() and update() are not called once the frame counter reaches this
MaxFrame == 6

\* Latest wall-clock timestamp handed to update(), in seconds
MaxTimestampSeconds == 2

WP(id, x, y, isMajor) == [id |-> id, x |-> x, y |-> y, isMajor |-> isMajor]

Config(mode, baseSpeed, pauseMode, pauseSeconds) ==
    [mode |-> mode, baseSpeedPxPerSec |-> baseSpeed, pauseMode |-> pauseMode,
     pauseSeconds |-> pauseSeconds, easeInOut |-> TRUE]

\* The points of a waypoint list, as runTimingTests derives pathPoints
PointsOf(waypoints) == [i \in 1..Len(waypoints) |-> [x |-> waypoints[i].x, y |-> waypoints[i].y]]

\* One major only: not animatable
OneMajor == <<WP("wp1", 0, 0, TRUE), WP("wp2", 50, 0, FALSE)>>

\* Two majors around a minor (the spec's example scenario)
TwoMajors == <<WP("wp1", 0, 0, TRUE), WP("wp2", 50, 0, FALSE), WP("wp3", 100, 0, TRUE)>>

\* Four majors, legs of 100, 50 and 100 pixels
FourMajors == <<WP("wp1", 0, 0, TRUE), WP("wp2", 100, 0, TRUE),
                WP("wp3", 100, 50, TRUE), WP("wp4", 200, 50, TRUE)>>

EmptyMap == buildTimingMap(OneMajor, Config("constantTime", Num(200), "none", Num(0)), NoPath)

OneSegmentMap == buildTimingMap(TwoMajors, Config("constantTime", Num(200), "none", Num(0)), NoPath)

ThreeSegmentMap ==
    buildTimingMap(FourMajors, Config("constantSpeed", Num(100), "seconds", Frac(1, 2)),
                   Some(PointsOf(FourMajors)))

\* The maps installed in the runtime under test
RuntimeMaps == {EmptyMap, OneSegmentMap, ThreeSegmentMap}

\* Arguments of setSpeed: below the range, inside it, above it
SpeedArgs == {Frac(1, 10), Num(1), Num(10)}

\* Arguments of seekToTime: negative, inside, beyond every duration
TimeArgs == {Num(-1), Frac(5, 4), Num(100)}

\* Arguments of seekToNormalizedProgress: below the range, in the first
\* segment, off the middle and in the middle of an interior segment, above
\* the range
ProgressArgs == {Num(-1), Frac(1, 4), Frac(5, 12), Frac(1, 2), Num(2)}

\* Arguments of seekToFrame
FrameArgs == {-1, 3, 100}

\* Wall-clock timestamps in milliseconds
Timestamps == {Num(1000 * k) : k \in 0..MaxTimestampSeconds}

\* The total durations a runtime is constructed with
InitDurations == {Num(0), Num(SegmentSeconds)}

---------------------------------------------------------------------------
(* The runtime as a state machine: one action per public method *)

HarnessIdle ==
    /\ build = Null
    /\ query = Null
    /\ updStart = Null
    /\ stepTrace = <<>>
    /\ rtB = Null
    /\ run = Null

Init ==
    /\ \E d \in InitDurations : rt = NewRuntime([fps |-> Fps, totalDuration |-> d])
    /\ lastOp = "new"
    /\ HarnessIdle

\* The variables of the harnesses, which the runtime's methods leave alone
harness == <<build, query, updStart, stepTrace, rtB, run>>

SetTimingMap ==
    /\ \E m \in RuntimeMaps : rt' = setTimingMap(rt, m)
    /\ lastOp' = "setTimingMap"
    /\ UNCHANGED harness

Reset ==
    /\ rt' = reset(rt)
    /\ lastOp' = "reset"
    /\ UNCHANGED harness

Step ==
    /\ rt.state.frame < MaxFrame
    /\ rt' = step(rt)
    /\ lastOp' = "step"
    /\ UNCHANGED harness

SeekToTime ==
    /\ \E t \in TimeArgs : rt' = seekToTime(rt, t)
    /\ lastOp' = "seekToTime"
    /\ UNCHANGED harness

SeekToNormalizedProgress ==
    /\ \E p \in ProgressArgs : rt' = seekToNormalizedProgress(rt, p)
    /\ lastOp' = "seekToNormalizedProgress"
    /\ UNCHANGED harness

SeekToFrame ==
    /\ \E f \in FrameArgs : rt' = seekToFrame(rt, f)
    /\ lastOp' = "seekToFrame"
    /\ UNCHANGED harness

SeekToStart ==
    /\ rt' = seekToStart(rt)
    /\ lastOp' = "seekToStart"
    /\ UNCHANGED harness

SeekToEnd ==
    /\ rt' = seekToEnd(rt)
    /\ lastOp' = "seekToEnd"
    /\ UNCHANGED harness

Play ==
    /\ rt' = play(rt)
    /\ lastOp' = "play"
    /\ UNCHANGED harness

Pause ==
    /\ rt' = pause(rt)
    /\ lastOp' = "pause"
    /\ UNCHANGED harness

TogglePlayPause ==
    /\ rt' = togglePlayPause(rt)
    /\ lastOp' = "togglePlayPause"
    /\ UNCHANGED harness

SetSpeed ==
    /\ \E s \in SpeedArgs : rt' = setSpeed(rt, s)
    /\ lastOp' = "setSpeed"
    /\ UNCHANGED harness

\* update(timestamp) with the timestamps of a monotonic clock
Update ==
    /\ \E ts \in Timestamps :
        /\ rt.lastTimestamp # Null => Ge(ts, Val(rt.lastTimestamp))
        /\ update(rt, ts).rt.state.frame <= MaxFrame
        /\ rt' = update(rt, ts).rt
    /\ lastOp' = "update"
    /\ UNCHANGED harness

Next ==
    \/ SetTimingMap
    \/ Reset
    \/ Step
    \/ SeekToTime
    \/ SeekToNormalizedProgress
    \/ SeekToFrame
    \/ SeekToStart
    \/ SeekToEnd
    \/ Play
    \/ Pause
    \/ TogglePlayPause
    \/ SetSpeed
    \/ Update

Spec == Init /\ [][Next]_vars

---------------------------------------------------------------------------
(* The timing engine under test: build a map, then query it *)

\* Progress queries are made at the multiples of 1/QueryDen seconds
QueryDen == 2

\* Three majors with minors between them
ThreeMajors == <<WP("wp1", 0, 0, TRUE), WP("wp2", 50, 0, FALSE), WP("wp3", 100, 0, TRUE),
                 WP("wp4", 150, 0, FALSE), WP("wp5", 200, 0, TRUE)>>

\* Three majors, the first two at the same place
RepeatedMajors == <<WP("wp1", 0, 0, TRUE), WP("wp2", 0, 0, TRUE), WP("wp3", 100, 0, TRUE)>>

\* Three majors, a long leg of 400 pixels and a short one of 200
UnevenMajors == <<WP("wp1", 0, 0, TRUE), WP("wp2", 400, 0, TRUE), WP("wp3", 600, 0, TRUE)>>

\* No major at all, and a major on its own
MinorsOnly == <<WP("wp1", 0, 0, FALSE), WP("wp2", 50, 0, FALSE), WP("wp3", 100, 0, FALSE)>>
LoneMajor == <<WP("wp1", 0, 0, TRUE)>>

WaypointLists ==
    {MinorsOnly, LoneMajor, OneMajor, TwoMajors, ThreeMajors, FourMajors, RepeatedMajors,
     UnevenMajors}

TimingConfigs ==
    {Config(mode, Num(100), pm[1], pm[2]) :
        mode \in {"constantTime", "constantSpeed"},
        pm \in {<<"none", Num(2)>>, <<"seconds", Frac(1, 2)>>, <<"seconds", Num(2)>>,
                <<"click", Num(2)>>}}
      \cup {Config("constantSpeed", Num(200), "none", Num(0))}

\* A denser path through the same points: every leg gets its midpoint
Densified(points) ==
    [j \in 1..(2 * Len(points) - 1) |->
        IF j % 2 = 1 THEN points[(j + 1) \div 2]
        ELSE [x |-> (points[j \div 2].x + points[j \div 2 + 1].x) \div 2,
              y |-> (points[j \div 2].y + points[j \div 2 + 1].y) \div 2]]

\* The optional third argument: absent, the waypoints' own points, or the
\* denser path through them
PathsFor(waypoints) ==
    {NoPath, Some(PointsOf(waypoints)), Some(Densified(PointsOf(waypoints)))}

Built(waypoints, config, pathPoints) ==
    [waypoints |-> waypoints, config |-> config, pathPoints |-> pathPoints,
     map |-> rebuildTimingMap(waypoints, config, pathPoints)]

Builds ==
    UNION {{Built(w, c, pp) : c \in TimingConfigs, pp \in PathsFor(w)} : w \in WaypointLists}

\* The query times for a map: the grid over [0, totalDuration], one grid
\* point before and after it, and totalDuration itself
QueryTimes(map) ==
    {Frac(k, QueryDen) : k \in (-1)..(CeilInt(Mul(map.totalDuration, Num(QueryDen))) + 1)}
        \cup {map.totalDuration}

RuntimeIdle ==
    /\ rt = NewRuntime([fps |-> Fps, totalDuration |-> Num(0)])
    /\ lastOp = "new"

TimingInit ==
    /\ RuntimeIdle
    /\ build \in {Some(b) : b \in Builds}
    /\ query = Null
    /\ updStart = Null
    /\ stepTrace = <<>>
    /\ rtB = Null
    /\ run = Null

\* The authoring surface changes the timing configuration: full rebuild,
\* taken up after a probe of a single time
Rebuild ==
    /\ query # Null
    /\ Val(query).t1 = Val(query).t2
    /\ \E c \in TimingConfigs :
        build' = Some(Built(Val(build).waypoints, c, Val(build).pathPoints))
    /\ query' = Null
    /\ UNCHANGED <<rt, lastOp, updStart, stepTrace, rtB, run>>

\* One line of the progress mapping test: time -> progress -> time
RoundTrip(map, time) ==
    LET progress == getNormalizedProgressAtTime(map, time)
    IN  [progress |-> progress, reverseTime |-> getTimeAtNormalizedProgress(map, progress)]

\* progressAtTime at two times t1 <= t2, and timeAtProgress of each result
QueryProgress ==
    /\ query = Null
    /\ \E t1, t2 \in QueryTimes(Val(build).map) :
        /\ Le(t1, t2)
        /\ run = Null
        /\ LET first == RoundTrip(Val(build).map, t1)
               second == RoundTrip(Val(build).map, t2)
           IN  query' = Some([t1 |-> t1, p1 |-> first.progress, back1 |-> first.reverseTime,
                              seg1 |-> getCurrentSegment(Val(build).map, t1),
                              t2 |-> t2, p2 |-> second.progress, back2 |-> second.reverseTime,
                              seg2 |-> getCurrentSegment(Val(build).map, t2)])
    /\ UNCHANGED <<rt, lastOp, build, updStart, stepTrace, rtB, run>>

\* Progress values are probed at the multiples of 1/ProgressDen
ProgressDen == 12

\* timeAtProgress at a progress p of [0, 1], and progressAtTime of the result
QueryTime ==
    /\ query = Null
    /\ run = Null
    /\ \E k \in 0..ProgressDen :
        LET p == Frac(k, ProgressDen)
            time == getTimeAtNormalizedProgress(Val(build).map, p)
        IN  run' = Some([p |-> p, time |-> time,
                         back |-> getNormalizedProgressAtTime(Val(build).map, time)])
    /\ UNCHANGED <<rt, lastOp, build, query, updStart, stepTrace, rtB>>

TimingNext == Rebuild \/ QueryProgress \/ QueryTime

TimingSpec == TimingInit /\ [][TimingNext]_vars

---------------------------------------------------------------------------
(* Properties of the timing engine, checked under TimingSpec *)

BuiltMap == Val(build).map
BuiltConfig == Val(build).config
SegmentCount == Len(BuiltMap.segments)
LastSegment == BuiltMap.segments[SegmentCount]

\* The sum of the motion durations of the first k segments
RECURSIVE MotionTotal(_, _)
MotionTotal(map, k) ==
    IF k = 0 THEN Num(0) ELSE Add(MotionTotal(map, k - 1), map.segments[k].duration)

\* C3: with pauses enabled and at least one segment, the final segment has
\* no trailing pause and totalDuration is the sum of the motion durations
\* plus exactly (N - 1) pause windows.
C3_PauseCount ==
    (BuiltConfig.pauseMode # "none" /\ SegmentCount >= 1) =>
        /\ LastSegment.pauseDuration = Num(0)
        /\ BuiltMap.totalDuration =
              Add(MotionTotal(BuiltMap, SegmentCount),
                  Mul(Num(SegmentCount - 1), BuiltConfig.pauseSeconds))

\* C4: for a map with at least one segment, progressAtTime(0) = 0 and
\* progressAtTime(totalDuration) = 1.
C4_ProgressEndpoints ==
    (query # Null /\ SegmentCount >= 1) =>
        /\ Val(query).t1 = Num(0) => Val(query).p1 = Num(0)
        /\ Val(query).t2 = BuiltMap.totalDuration => Val(query).p2 = Num(1)

\* C5: progressAtTime is non-decreasing over [0, totalDuration]: for
\* 0 <= t1 <= t2 <= totalDuration, progressAtTime(t1) <= progressAtTime(t2).
C5_ProgressMonotone ==
    (/\ query # Null
     /\ Le(Num(0), Val(query).t1)
     /\ Le(Val(query).t1, Val(query).t2)
     /\ Le(Val(query).t2, BuiltMap.totalDuration)) =>
        Le(Val(query).p1, Val(query).p2)

\* Time t lies in the pause window of segment s
InPauseWindowOf(s, t) == Le(s.endTime, t) /\ Lt(t, Add(s.endTime, s.pauseDuration))

\* C6: at every time inside the pause window of a segment, progressAtTime
\* equals that segment's endProgress.
C6_PausePinned ==
    query # Null =>
        \A i \in 1..SegmentCount :
            LET s == BuiltMap.segments[i]
            IN  /\ InPauseWindowOf(s, Val(query).t1) => Val(query).p1 = s.endProgress
                /\ InPauseWindowOf(s, Val(query).t2) => Val(query).p2 = s.endProgress

\* C6 witness: a query strictly inside the pause window of an interior
\* segment, and a second one at the start of a later pause window
C6_Witness ==
    /\ query # Null
    /\ SegmentCount >= 3
    /\ LET s == BuiltMap.segments[2]
       IN  /\ Lt(s.endTime, Val(query).t1)
           /\ InPauseWindowOf(s, Val(query).t1)
           /\ Val(query).p1 = s.endProgress
    /\ Val(query).t2 = LastSegment.endTime
    /\ Lt(Num(0), LastSegment.pauseDuration)

BuiltWaypoints == Val(build).waypoints
BuiltPath == Val(build).pathPoints

\* How many of the waypoints built from are majors
MajorCount == Cardinality({i \in 1..Len(BuiltWaypoints) : BuiltWaypoints[i].isMajor})

\* C14: buildTimingMap on a list with fewer than 2 majors returns an empty
\* segment list and totalDuration = 0, in both timing modes and every pause
\* mode (the call returns: it does not throw).
C14_FewMajorsEmptyMap ==
    MajorCount < 2 =>
        /\ BuiltMap.segments = <<>>
        /\ BuiltMap.totalDuration = Num(0)

\* C14 witness: a map built in constantSpeed mode with pauses from a list
\* of minors only, with path points given, has been queried after time 0
C14_Witness ==
    /\ MajorCount = 0
    /\ Len(BuiltWaypoints) >= 2
    /\ BuiltConfig.mode = "constantSpeed"
    /\ BuiltConfig.pauseMode = "seconds"
    /\ BuiltPath # NoPath
    /\ query # Null
    /\ Lt(Num(0), Val(query).t2)
    /\ Val(query).p2 = Num(0)

\* The sum of the pause durations of the first k segments
RECURSIVE PauseTotal(_, _)
PauseTotal(map, k) ==
    IF k = 0 THEN Num(0) ELSE Add(PauseTotal(map, k - 1), map.segments[k].pauseDuration)

\* C15: in constantTime mode a list with two or more majors gives exactly
\* (majors - 1) segments of duration 3 each, however many minors lie
\* between the majors; totalDuration is the sum of the segment durations
\* plus all pause durations, 3 for two majors and no pause.
C15_ConstantTime ==
    (BuiltConfig.mode = "constantTime" /\ MajorCount >= 2) =>
        /\ SegmentCount = MajorCount - 1
        /\ \A i \in 1..SegmentCount : BuiltMap.segments[i].duration = Num(3)
        /\ BuiltMap.totalDuration =
              Add(MotionTotal(BuiltMap, SegmentCount), PauseTotal(BuiltMap, SegmentCount))
        /\ (MajorCount = 2 /\ BuiltConfig.pauseMode = "none") => BuiltMap.totalDuration = Num(3)

\* C15 witness: three majors with minors between them, constantTime with
\* pauses of 2 seconds: two segments, 10 seconds in all
C15_Witness ==
    /\ BuiltConfig.mode = "constantTime"
    /\ MajorCount = 3
    /\ Len(BuiltWaypoints) = 5
    /\ BuiltConfig.pauseMode = "seconds"
    /\ BuiltMap.totalDuration = Num(10)
    /\ query # Null

\* Path points per waypoint-to-waypoint leg of a path that gives every leg
\* the same number of points
PointsPerLeg == (Len(Val(BuiltPath)) - 1) \div (Len(BuiltWaypoints) - 1)

\* Arc length of the path between the path positions of waypoints a and b
\* (0-based waypoint indices)
ArcBetween(a, b) ==
    LET distances == buildArcLengthTable(Val(BuiltPath))
    IN  Sub(distances[b * PointsPerLeg + 1], distances[a * PointsPerLeg + 1])

\* C16: in constantSpeed mode with a path given, each segment's duration is
\* the arc length of the path between the path indices of its two majors
\* divided by baseSpeedPxPerSec; majors at (0,0) and (100,0) around a minor
\* at (50,0) at base speed 200 give one segment of 0.5 and totalDuration 0.5.
C16_ConstantSpeed ==
    (BuiltConfig.mode = "constantSpeed" /\ BuiltPath # NoPath /\ MajorCount >= 2) =>
        /\ \A i \in 1..SegmentCount :
              LET s == BuiltMap.segments[i]
              IN  s.duration = Div(ArcBetween(s.startWaypointIndex, s.endWaypointIndex),
                                   BuiltConfig.baseSpeedPxPerSec)
        /\ (BuiltWaypoints = TwoMajors /\ BuiltConfig.baseSpeedPxPerSec = Num(200)
                /\ BuiltConfig.pauseMode = "none") =>
              /\ SegmentCount = 1
              /\ BuiltMap.segments[1].duration = Frac(1, 2)
              /\ BuiltMap.totalDuration = Frac(1, 2)

\* C16 witness: the denser path through three majors a long and a short
\* leg apart: segments of 4 and 2 seconds at 100 pixels per second
C16_Witness ==
    /\ BuiltConfig.mode = "constantSpeed"
    /\ BuiltPath # NoPath
    /\ Len(Val(BuiltPath)) > Len(BuiltWaypoints)
    /\ SegmentCount = 2
    /\ BuiltMap.segments[1].duration = Num(4)
    /\ BuiltMap.segments[2].duration = Num(2)
    /\ query # Null

\* C17: in every map built, each segment has endTime = startTime +
\* duration; the first starts at 0; each next one starts at the previous
\* endTime + pauseDuration; totalDuration is the last endTime + the last
\* pauseDuration; with N segments, the i-th (from 0) has
\* startProgress = i/N and endProgress = (i+1)/N.
C17_WellFormed ==
    /\ \A i \in 1..SegmentCount :
          LET s == BuiltMap.segments[i]
          IN  /\ s.endTime = Add(s.startTime, s.duration)
              /\ s.startProgress = Frac(i - 1, SegmentCount)
              /\ s.endProgress = Frac(i, SegmentCount)
    /\ SegmentCount >= 1 =>
          /\ BuiltMap.segments[1].startTime = Num(0)
          /\ BuiltMap.totalDuration = Add(LastSegment.endTime, LastSegment.pauseDuration)
    /\ \A i \in 1..(SegmentCount - 1) :
          BuiltMap.segments[i + 1].startTime =
              Add(BuiltMap.segments[i].endTime, BuiltMap.segments[i].pauseDuration)

\* C17 witness: three segments of different lengths with pauses between
\* them, built in constantSpeed mode from four majors
C17_Witness ==
    /\ SegmentCount = 3
    /\ BuiltConfig.mode = "constantSpeed"
    /\ BuiltMap.segments[1].duration # BuiltMap.segments[2].duration
    /\ Lt(Num(0), BuiltMap.segments[2].pauseDuration)
    /\ Lt(BuiltMap.segments[2].endTime, BuiltMap.segments[3].startTime)
    /\ query # Null

\* C18: for every map with at least one segment, with or without pauses,
\* timeAtProgress(progressAtTime(0)) = 0 and
\* timeAtProgress(progressAtTime(totalDuration)) = totalDuration.
C18_RoundTripEndpoints ==
    (query # Null /\ SegmentCount >= 1) =>
        /\ Val(query).t1 = Num(0) => Val(query).back1 = Num(0)
        /\ Val(query).t2 = BuiltMap.totalDuration => Val(query).back2 = BuiltMap.totalDuration

\* The (1-based) positions of the segments of the built map with
\* startTime <= t < endTime + pauseDuration
BuiltWindowsAt(t) ==
    {i \in 1..SegmentCount :
        /\ Le(BuiltMap.segments[i].startTime, t)
        /\ Lt(t, Add(BuiltMap.segments[i].endTime, BuiltMap.segments[i].pauseDuration))}

\* seg (0-based index, -1 for null) is what activeSegment is to return at t
ActiveSegmentIs(t, seg) ==
    IF SegmentCount = 0 THEN seg = -1
    ELSE /\ seg \in 0..(SegmentCount - 1)
         /\ BuiltWindowsAt(t) # {} =>
               (seg + 1) \in BuiltWindowsAt(t) /\ \A j \in BuiltWindowsAt(t) : seg + 1 <= j
         /\ Ge(t, BuiltMap.totalDuration) => seg = SegmentCount - 1

\* C21: activeSegment(map, time) is null for a map with no segments;
\* otherwise it is the first segment s with
\* s.startTime <= time < s.endTime + s.pauseDuration, and the final segment
\* when time >= totalDuration.
C21_ActiveSegment ==
    query # Null =>
        /\ ActiveSegmentIs(Val(query).t1, Val(query).seg1)
        /\ ActiveSegmentIs(Val(query).t2, Val(query).seg2)

\* C21 witness: of three segments with pauses, the second is returned at
\* the instant its window opens and the last at totalDuration
C21_Witness ==
    /\ query # Null
    /\ SegmentCount = 3
    /\ Lt(Num(0), BuiltMap.segments[1].pauseDuration)
    /\ Val(query).t1 = BuiltMap.segments[2].startTime
    /\ Val(query).seg1 = 1
    /\ Val(query).t2 = BuiltMap.totalDuration
    /\ Val(query).seg2 = 2

\* e(r) for an interior segment: 2r^2 below one half, 1 - 2(1-r)^2 from there
EaseInOut(r) ==
    IF Lt(r, Frac(1, 2)) THEN Mul(Num(2), Mul(r, r))
    ELSE Sub(Num(1), Mul(Num(2), Mul(Sub(Num(1), r), Sub(Num(1), r))))

\* p is the progress the easing rule gives at time t inside the motion
\* window of the i-th segment (i from 1)
EasedProgressIs(i, t, p) ==
    LET s == BuiltMap.segments[i]
        r == Div(Sub(t, s.startTime), s.duration)
        e == IF i = 1 \/ i = SegmentCount THEN r ELSE EaseInOut(r)
    IN  p = Add(s.startProgress, Mul(Sub(s.endProgress, s.startProgress), e))

InMotionWindow(i, t) ==
    Le(BuiltMap.segments[i].startTime, t) /\ Lt(t, BuiltMap.segments[i].endTime)

\* C26: inside a segment's motion window, with r = (t - startTime) /
\* duration, progressAtTime is startProgress + (endProgress - startProgress)
\* * e(r), e the identity for the first and the last segment and the
\* quadratic ease-in-out for every interior segment.
C26_EasingPlacement ==
    query # Null =>
        \A i \in 1..SegmentCount :
            /\ InMotionWindow(i, Val(query).t1) => EasedProgressIs(i, Val(query).t1, Val(query).p1)
            /\ InMotionWindow(i, Val(query).t2) => EasedProgressIs(i, Val(query).t2, Val(query).p2)

\* C26 witness: one query in the first half of the interior segment of a
\* three-segment map, where the eased progress lies below the linear one,
\* and one in the last segment, which is linear
C26_Witness ==
    /\ query # Null
    /\ SegmentCount = 3
    /\ InMotionWindow(2, Val(query).t1)
    /\ Lt(BuiltMap.segments[2].startTime, Val(query).t1)
    /\ Lt(Val(query).p1,
          Add(BuiltMap.segments[2].startProgress,
              Mul(Frac(1, 3), Div(Sub(Val(query).t1, BuiltMap.segments[2].startTime),
                                  BuiltMap.segments[2].duration))))
    /\ InMotionWindow(3, Val(query).t2)
    /\ Lt(BuiltMap.segments[3].startTime, Val(query).t2)

\* C27: for every map with at least one segment and every p in [0, 1],
\* progressAtTime(map, timeAtProgress(map, p)) = p.
C27_InverseOfProgress ==
    (run # Null /\ SegmentCount >= 1) => Val(run).back = Val(run).p

\* C38: every segment of a map built from at least 2 majors has
\* duration > 0, in constantTime mode and in constantSpeed mode with or
\* without the optional path points.
C38_PositiveDurations ==
    MajorCount >= 2 =>
        \A i \in 1..SegmentCount : Lt(Num(0), BuiltMap.segments[i].duration)

---------------------------------------------------------------------------
(* Properties of the runtime, checked under Spec *)

\* C7: after setTimingMap the runtime is Ready: time, frame, progress and
\* segment index are 0 and isPlaying is false, whatever the prior state.
C7_SetTimingMapReady ==
    lastOp = "setTimingMap" =>
        /\ rt.state.time = Num(0)
        /\ rt.state.frame = 0
        /\ rt.state.normalizedProgress = Num(0)
        /\ rt.state.currentSegmentIndex = 0
        /\ rt.state.isPlaying = FALSE

\* C8: with no map installed, play(), pause() and togglePlayPause() leave
\* every field of the state unchanged.
C8_IdleNoOps ==
    [][(rt.timingMap = NoMap /\ lastOp' \in {"play", "pause", "togglePlayPause"})
          => rt'.state = rt.state]_vars

SeekOps == {"seekToTime", "seekToNormalizedProgress", "seekToFrame", "seekToStart", "seekToEnd"}

\* C10: no seek operation changes isPlaying or speed.
C10_SeekKeepsPlayingAndSpeed ==
    [][lastOp' \in SeekOps =>
          /\ rt'.state.isPlaying = rt.state.isPlaying
          /\ rt'.state.speed = rt.state.speed]_vars

\* C10 witness: a seek has moved the clock of a runtime that is playing at
\* a speed other than the default
C10_Witness ==
    /\ lastOp = "seekToFrame"
    /\ rt.state.isPlaying
    /\ rt.state.speed = Frac(MaxSpeedQuarters, 4)
    /\ rt.state.frame = 3
    /\ rt.state.time = Num(3)

\* The multiplier m brought into [0.25, 8.0]
ClampedSpeed(m) ==
    IF Lt(m, Frac(MinSpeedQuarters, 4)) THEN Frac(MinSpeedQuarters, 4)
    ELSE IF Gt(m, Frac(MaxSpeedQuarters, 4)) THEN Frac(MaxSpeedQuarters, 4)
    ELSE m

\* C11 (range): in every reachable state 0.25 <= speed <= 8.0.
C11_SpeedInRange ==
    /\ Le(Frac(MinSpeedQuarters, 4), rt.state.speed)
    /\ Le(rt.state.speed, Frac(MaxSpeedQuarters, 4))

\* C11 (effect): setSpeed(m) stores m clamped to [0.25, 8.0] and changes
\* no other field of the runtime.
C11_SetSpeedEffect ==
    lastOp' = "setSpeed" =>
        /\ \E m \in SpeedArgs : rt'.state.speed = ClampedSpeed(m)
        /\ [rt' EXCEPT !.state.speed = rt.state.speed] = rt

\* C11: the speed stays in [0.25, 8.0] whatever is called, and setSpeed(m)
\* stores m clamped to that range and changes nothing else.
C11_SpeedRange == []C11_SpeedInRange /\ [][C11_SetSpeedEffect]_vars

\* C11 witness: setSpeed with an argument above the range has been called
\* on a playing runtime whose clock has moved, and the speed is 8.0
C11_Witness ==
    /\ lastOp = "setSpeed"
    /\ rt.state.speed = Frac(MaxSpeedQuarters, 4)
    /\ rt.state.isPlaying
    /\ rt.state.frame > 0
    /\ rt.state.time # Num(0)

\* C12: with a map installed, 0 <= time <= totalDuration after any sequence
\* of step, update, play, pause, setSpeed, reset and seek calls, whatever
\* their arguments (every call returns: none of them throws).
C12_TimeInRange ==
    rt.timingMap # NoMap =>
        /\ Le(Num(0), rt.state.time)
        /\ Le(rt.state.time, Val(rt.timingMap).totalDuration)
        /\ rt.config.totalDuration = Val(rt.timingMap).totalDuration

\* C12 witness: a seek far beyond the end has returned with the clock at
\* the total duration of a map with three segments
C12_Witness ==
    /\ lastOp = "seekToFrame"
    /\ rt.timingMap = Some(ThreeSegmentMap)
    /\ rt.state.time = ThreeSegmentMap.totalDuration
    /\ rt.state.frame > 3

\* The methods that start with "if (!this.timingMap) return"
MapOps == {"step", "seekToTime", "seekToNormalizedProgress", "seekToFrame"}

\* C13: step, seekToTime, seekToNormalizedProgress or seekToFrame called
\* with no map installed fails with an error: it never returns normally
\* with the runtime left as it was.
C13_NoMapFailsLoudly ==
    [][~(rt.timingMap = NoMap /\ lastOp' \in MapOps /\ rt' = rt)]_vars

\* C20 (state): the map the runtime holds is, field for field, one of the
\* maps as buildTimingMap returned them.
C20_InstalledMapAsBuilt ==
    rt.timingMap = NoMap \/ Val(rt.timingMap) \in RuntimeMaps

\* C20 (effect): only setTimingMap changes what the runtime's map reference
\* shows; every other method leaves each field of the map as it was.
C20_OnlyInstallChangesMap ==
    lastOp' # "setTimingMap" => rt'.timingMap = rt.timingMap

\* C20: no method of the runtime writes a field of a timing map.
C20_MapImmutable == []C20_InstalledMapAsBuilt /\ [][C20_OnlyInstallChangesMap]_vars

\* C20 witness: a second map has been installed after the first was played
\* and sought through, and the runtime was reset and stepped after that
C20_Witness ==
    /\ rt.timingMap = Some(OneSegmentMap)
    /\ rt.config.totalDuration = OneSegmentMap.totalDuration
    /\ lastOp = "step"
    /\ rt.state.frame = 2
    /\ rt.state.speed # Num(1)

\* C25: with a map installed, after every operation normalizedProgress
\* equals progressAtTime(map, time) and currentSegmentIndex is the index of
\* activeSegment(map, time).
C25_StateConsistent ==
    (rt.timingMap # NoMap
        /\ lastOp \in {"step", "update", "seekToTime", "seekToNormalizedProgress",
                       "seekToFrame", "reset", "setTimingMap"}) =>
        /\ rt.state.normalizedProgress =
              getNormalizedProgressAtTime(Val(rt.timingMap), rt.state.time)
        /\ Len(Val(rt.timingMap).segments) >= 1 =>
              rt.state.currentSegmentIndex =
                  getCurrentSegment(Val(rt.timingMap), rt.state.time)

\* C29: while isPlaying is false, step() and update(timestamp) leave time,
\* normalizedProgress, currentSegmentIndex and frame unchanged.
C29_PausedFrozen ==
    [][(~rt.state.isPlaying /\ lastOp' \in {"step", "update"}) =>
          /\ rt'.state.time = rt.state.time
          /\ rt'.state.normalizedProgress = rt.state.normalizedProgress
          /\ rt'.state.currentSegmentIndex = rt.state.currentSegmentIndex
          /\ rt'.state.frame = rt.state.frame]_vars

\* C29 witness: step() has returned on a runtime paused part of the way
\* through a map with three segments, at a speed other than 1
C29_Witness ==
    /\ lastOp = "step"
    /\ ~rt.state.isPlaying
    /\ rt.timingMap = Some(ThreeSegmentMap)
    /\ Lt(Num(0), rt.state.time)
    /\ Lt(rt.state.time, ThreeSegmentMap.totalDuration)
    /\ rt.state.frame >= 2
    /\ rt.state.speed # Num(1)

\* C35: with a map installed, frame <= getTotalFrames() in every reachable
\* state, for any interleaving of play, pause, setSpeed, step, update and
\* seek operations.
C35_FrameBound ==
    rt.timingMap # NoMap => rt.state.frame <= getTotalFrames(rt)

\* C36: with a map installed, frame = floor(time * fps) in every reachable
\* state, at every speed and when the clock is clamped at totalDuration.
C36_FrameMatchesTime ==
    rt.timingMap # NoMap =>
        rt.state.frame = FloorInt(Mul(rt.state.time, Num(rt.config.fps)))

\* C37: 0 <= normalizedProgress <= 1 in every reachable state, for every
\* installed map built by buildTimingMap, including the state reached
\* when step() clamps the clock at totalDuration.
C37_ProgressInRange ==
    rt.timingMap # NoMap =>
        /\ Le(Num(0), rt.state.normalizedProgress)
        /\ Le(rt.state.normalizedProgress, Num(1))

---------------------------------------------------------------------------
(* The preview path under test: a runtime in some reachable state is       *)
(* driven by update(timestamp) alone                                       *)

\* Latest wall-clock timestamp of the preview, in quarter seconds
MaxPreviewQuarters == 14

\* The waypoints and map of runRuntimeDemo: four majors, constant time,
\* pauses of 2 seconds
DemoWaypoints == <<WP("wp1", 0, 0, TRUE), WP("wp2", 100, 0, FALSE), WP("wp3", 200, 0, TRUE),
                   WP("wp4", 300, 0, FALSE), WP("wp5", 400, 0, TRUE),
                   WP("wp6", 500, 0, FALSE), WP("wp7", 600, 0, TRUE)>>

DemoMap == buildTimingMap(DemoWaypoints, Config("constantTime", Num(200), "seconds", Num(2)), NoPath)

HarnessMaps == RuntimeMaps \cup {DemoMap}

FreshRuntime == NewRuntime([fps |-> Fps, totalDuration |-> Num(0)])

\* Speeds set before a preview: those of SpeedArgs and double speed
PreviewSpeedArgs == SpeedArgs \cup {Num(2)}

\* Runtimes that earlier calls have left somewhere: a map installed, the
\* clock moved, a speed set, playing or not
UsedRuntimes ==
    {setSpeed(IF playing THEN play(seekToTime(setTimingMap(FreshRuntime, m), t))
              ELSE seekToTime(setTimingMap(FreshRuntime, m), t), s) :
        m \in HarnessMaps, t \in {Num(0), Frac(5, 4)}, s \in PreviewSpeedArgs,
        playing \in BOOLEAN}

PreviewTimestamps == {Num(250 * k) : k \in 0..MaxPreviewQuarters}

\* Most step() states recorded over one preview
MaxTrace == 24

\* How many times the while loop of update(timestamp) will run: the whole
\* fixed steps held by the accumulator once the elapsed time is added
StepsOwed(r, timestamp) ==
    IF ~r.state.isPlaying THEN 0
    ELSE LET last == IF r.lastTimestamp = Null THEN timestamp ELSE Val(r.lastTimestamp)
             deltaTime == Div(Sub(timestamp, last), Num(1000))
         IN  FloorInt(Div(Add(r.accumulatedTime, Mul(deltaTime, r.state.speed)),
                          getFixedTimeStep(r)))

UpdateInit ==
    /\ rt \in UsedRuntimes \cup {play(FreshRuntime)}
    /\ lastOp = "new"
    /\ updStart = Some(rt)
    /\ stepTrace = <<>>
    /\ build = Null
    /\ query = Null
    /\ rtB = Null
    /\ run = Null

\* One display refresh: update(timestamp), the step() states recorded, and
\* the timestamp of the refresh that started the preview clock
UpdateCall ==
    /\ \E ts \in PreviewTimestamps :
        /\ rt.lastTimestamp # Null => Ge(ts, Val(rt.lastTimestamp))
        /\ Len(stepTrace) + StepsOwed(rt, ts) <= MaxTrace
        /\ rt' = update(rt, ts).rt
        /\ stepTrace' = stepTrace \o update(rt, ts).trace
        /\ run' = IF rt.state.isPlaying /\ rt.lastTimestamp = Null
                  THEN Some([first |-> ts]) ELSE run
    /\ lastOp' = "update"
    /\ UNCHANGED <<build, query, updStart, rtB>>

UpdateNext == UpdateCall

UpdateSpec == UpdateInit /\ [][UpdateNext]_vars

\* The runtime after n direct calls of step()
RECURSIVE StepTimes(_, _)
StepTimes(r, n) == IF n = 0 THEN r ELSE step(StepTimes(r, n - 1))

\* What n direct calls of step() show, one entry per call
DirectSteps(r, n) == [i \in 1..n |-> Observed(StepTimes(r, i))]

\* C1: the (frame, time, normalizedProgress) states left by the step()
\* calls made inside a sequence of update() calls are those of the same
\* number of direct step() calls from the same starting state.
C1_UpdateIsStepping ==
    stepTrace = DirectSteps(Val(updStart), Len(stepTrace))

\* C1 witness: several update() calls have stepped at least three times
\* from a clock that was not at 0, the states differ, and a remainder
\* smaller than one fixed step is carried
C1_Witness ==
    /\ Len(stepTrace) >= 3
    /\ stepTrace[1] # stepTrace[3]
    /\ Val(updStart).state.time # Num(0)
    /\ rt.accumulatedTime # Num(0)
    /\ rt.state.isPlaying

\* |a - b|
Distance(a, b) == Max(Sub(a, b), Sub(b, a))

\* Wall-clock seconds between the first and the latest refresh
PreviewSeconds == Div(Sub(Val(rt.lastTimestamp), Val(run).first), Num(1000))

\* C30: while Playing (a map installed, the end not reached) at speed s,
\* update() calls spanning a wall-clock interval of D seconds advance
\* simulated time by s*D to within one step.
C30_SpeedScalesOnce ==
    (run # Null /\ rt.timingMap # NoMap /\ rt.state.isPlaying) =>
        Le(Distance(Sub(rt.state.time, Val(updStart).state.time),
                    Mul(rt.state.speed, PreviewSeconds)),
           Max(getFixedTimeStep(rt), Mul(getFixedTimeStep(rt), rt.state.speed)))

---------------------------------------------------------------------------
(* Playthroughs under test: the script of runRuntimeDemo's determinism     *)
(* test (reset, seekToNormalizedProgress(p), play, n times step) is run    *)
(* twice on a used runtime and once on a fresh runtime at the same speed   *)

\* Most step() calls of one playthrough
MaxSteps == 6

RunProgressArgs == {Num(0), Frac(1, 4), Frac(1, 2)}

RunSpeedArgs == {Frac(1, 10), Num(1), Num(2)}

RunStarts ==
    {<<setSpeed(IF playing THEN play(seekToTime(setTimingMap(FreshRuntime, m), t))
                ELSE seekToTime(setTimingMap(FreshRuntime, m), t), s),
       setSpeed(setTimingMap(FreshRuntime, m), s)>> :
        m \in HarnessMaps, t \in {Frac(5, 4)}, s \in RunSpeedArgs, playing \in BOOLEAN}

RunInit ==
    /\ \E st \in RunStarts : rt = st[1] /\ rtB = Some(st[2])
    /\ \E p \in RunProgressArgs :
        run = Some([stage |-> "reset", pass |-> 1, p |-> p,
                    first |-> <<>>, second |-> <<>>, fresh |-> <<>>])
    /\ lastOp = "new"
    /\ build = Null
    /\ query = Null
    /\ updStart = Null
    /\ stepTrace = <<>>

\* The runtime the current pass drives: the used one in passes 1 and 2,
\* the fresh one in pass 3
Target == IF Val(run).pass = 3 THEN Val(rtB) ELSE rt

\* The current pass has called `name` and left the runtime r
Drive(name, r) ==
    IF Val(run).pass = 3
    THEN rtB' = Some(r) /\ UNCHANGED <<rt, lastOp>>
    ELSE rt' = r /\ lastOp' = name /\ rtB' = rtB

\* The results recorded by the current pass
Recorded ==
    IF Val(run).pass = 1 THEN Val(run).first
    ELSE IF Val(run).pass = 2 THEN Val(run).second ELSE Val(run).fresh

RunReset ==
    /\ Val(run).stage = "reset"
    /\ Drive("reset", reset(Target))
    /\ run' = Some([Val(run) EXCEPT !.stage = "seek"])
    /\ UNCHANGED <<build, query, updStart, stepTrace>>

RunSeek ==
    /\ Val(run).stage = "seek"
    /\ Drive("seekToNormalizedProgress", seekToNormalizedProgress(Target, Val(run).p))
    /\ run' = Some([Val(run) EXCEPT !.stage = "play"])
    /\ UNCHANGED <<build, query, updStart, stepTrace>>

RunPlay ==
    /\ Val(run).stage = "play"
    /\ Drive("play", play(Target))
    /\ run' = Some([Val(run) EXCEPT !.stage = "step"])
    /\ UNCHANGED <<build, query, updStart, stepTrace>>

\* step(), then results.push of the state read back
RunStep ==
    /\ Val(run).stage = "step"
    /\ Len(Recorded) < (IF Val(run).pass = 1 THEN MaxSteps ELSE Len(Val(run).first))
    /\ Drive("step", step(Target))
    /\ LET seen == <<getCurrentState(step(Target)).time,
                     getCurrentState(step(Target)).normalizedProgress>>
       IN  run' = Some(IF Val(run).pass = 1 THEN [Val(run) EXCEPT !.first = Append(@, seen)]
                       ELSE IF Val(run).pass = 2
                            THEN [Val(run) EXCEPT !.second = Append(@, seen)]
                            ELSE [Val(run) EXCEPT !.fresh = Append(@, seen)])
    /\ UNCHANGED <<build, query, updStart, stepTrace>>

\* The pass is over: the first after any number of steps, the others after
\* as many steps as the first
RunNextPass ==
    /\ Val(run).stage = "step"
    /\ IF Val(run).pass = 1 THEN Len(Recorded) >= 1 ELSE Len(Recorded) = Len(Val(run).first)
    /\ run' = Some(IF Val(run).pass = 3 THEN [Val(run) EXCEPT !.stage = "done"]
                   ELSE [Val(run) EXCEPT !.stage = "reset", !.pass = @ + 1])
    /\ UNCHANGED <<rt, rtB, lastOp, build, query, updStart, stepTrace>>

RunNext == RunReset \/ RunSeek \/ RunPlay \/ RunStep \/ RunNextPass

RunSpec == RunInit /\ [][RunNext]_vars

\* s is a prefix of t
IsPrefix(s, t) == Len(s) <= Len(t) /\ \A i \in 1..Len(s) : s[i] = t[i]

\* C2: the same script at the same speed gives the same sequence of
\* (time, normalizedProgress), run again on the same runtime or run on a
\* fresh runtime.
C2_RunsAgree ==
    run # Null =>
        /\ IsPrefix(Val(run).second, Val(run).first)
        /\ IsPrefix(Val(run).fresh, Val(run).first)

\* C2 witness: all three passes are over, five or more steps each, from a
\* seek into the path, and the clock moved during the pass
C2_Witness ==
    /\ run # Null
    /\ Val(run).stage = "done"
    /\ Val(run).p = Frac(1, 4)
    /\ Len(Val(run).first) >= 5
    /\ Len(Val(run).fresh) = Len(Val(run).first)
    /\ Len(Val(run).second) = Len(Val(run).first)
    /\ Val(run).first[1] # Val(run).first[5]

\* C9 (one step): step() while Playing with a map installed sets time to
\* min(time + speed / fps, totalDuration), adds 1 to frame, and clears
\* isPlaying exactly when the new time is totalDuration.
C9_StepEffect ==
    (RunStep /\ Val(run).pass # 3 /\ rt.state.isPlaying /\ rt.timingMap # NoMap) =>
        /\ rt'.state.time =
              Min(Add(rt.state.time, Div(rt.state.speed, Num(rt.config.fps))),
                  rt.config.totalDuration)
        /\ rt'.state.frame = rt.state.frame + 1
        /\ rt'.state.isPlaying = (rt'.state.time # rt.config.totalDuration)

\* C9 (n steps): after play() at time 0, n steps at speed s leave
\* time = min(n * s / fps, totalDuration).
C9_StepsFromZero ==
    (run # Null /\ Val(run).pass = 1 /\ Val(run).stage = "step" /\ Val(run).p = Num(0)) =>
        rt.state.time =
            Min(Div(Mul(Num(Len(Val(run).first)), rt.state.speed), Num(rt.config.fps)),
                rt.config.totalDuration)

---------------------------------------------------------------------------
(* Export under test: one runtime is sought frame by frame with            *)
(* seekToFrame(i), another has the same map installed, is started with     *)
(* play() at speed 1 and is driven by step()                               *)

\* A map whose total duration is not a whole number of frames
FractionalMap ==
    buildTimingMap(FourMajors, Config("constantSpeed", Num(100), "none", Num(0)),
                   Some(PointsOf(FourMajors)))

\* A map whose first two majors are at the same place
RepeatedMap ==
    buildTimingMap(RepeatedMajors, Config("constantSpeed", Num(100), "none", Num(0)),
                   Some(PointsOf(RepeatedMajors)))

ExportMaps == HarnessMaps \cup {FractionalMap, RepeatedMap}

\* The runtime to seek (left by earlier calls at some speed, playing or
\* not) and the runtime to step (new, map installed, play())
ExportStarts ==
    {<<setSpeed(IF playing THEN play(setTimingMap(FreshRuntime, m))
                ELSE setTimingMap(FreshRuntime, m), s),
       play(setTimingMap(FreshRuntime, m))>> :
        m \in ExportMaps, s \in {Num(1), Num(2)}, playing \in BOOLEAN}

ExportInit ==
    /\ \E st \in ExportStarts : rt = st[1] /\ rtB = Some(st[2])
    /\ run = Some([sought |-> -1, stepped |-> 0])
    /\ lastOp = "new"
    /\ build = Null
    /\ query = Null
    /\ updStart = Null
    /\ stepTrace = <<>>

\* seekToFrame(i) for a frame index of the export range
ExportSeekToFrame ==
    /\ \E i \in 0..(getTotalFrames(rt) - 1) :
        /\ rt' = seekToFrame(rt, i)
        /\ run' = Some([Val(run) EXCEPT !.sought = i])
    /\ lastOp' = "seekToFrame"
    /\ UNCHANGED <<rtB, build, query, updStart, stepTrace>>

\* One more step() of the stepped runtime, up to the last frame index
ExportStep ==
    /\ Val(run).stepped < getTotalFrames(Val(rtB)) - 1
    /\ rtB' = Some(step(Val(rtB)))
    /\ run' = Some([Val(run) EXCEPT !.stepped = @ + 1])
    /\ UNCHANGED <<rt, lastOp, build, query, updStart, stepTrace>>

ExportNext == ExportSeekToFrame \/ ExportStep

ExportSpec == ExportInit /\ [][ExportNext]_vars

\* What the encoder reads of a state
ExportView(r) ==
    <<getCurrentState(r).frame, getCurrentState(r).time,
      getCurrentState(r).normalizedProgress, getCurrentState(r).currentSegmentIndex>>

\* C19: for every frame index i with 0 <= i < getTotalFrames(), the state
\* (frame, time, normalizedProgress, currentSegmentIndex) after
\* seekToFrame(i) equals the state after installing the map, play() at
\* speed 1 and exactly i step() calls.
C19_SeekEqualsStepping ==
    (run # Null /\ Val(run).sought = Val(run).stepped) =>
        ExportView(rt) = ExportView(Val(rtB))


---------------------------------------------------------------------------
(* Geometry (engine/geometry.ts): curves and positions *)

\* A point with integer coordinates as a point of numbers
NumPoint(p) == [x |-> Num(p.x), y |-> Num(p.y)]

\* Math.pow(d, 0.5) of an integer distance that is a perfect square
PowHalf(d) == Num(Sqrt(d.n))

\* catmullRomCentripetal(p0, p1, p2, p3, t, tension)
catmullRomCentripetal(p0, p1, p2, p3, t, tension) ==
    LET d01 == distance(p0, p1)
        d12 == distance(p1, p2)
        d23 == distance(p2, p3)
        t0 == Num(0)
        t1 == Add(t0, PowHalf(d01))
        t2 == Add(t1, PowHalf(d12))
        t3 == Add(t2, PowHalf(d23))
        tt == Add(t1, Mul(t, Sub(t2, t1)))
        t1t0 == Sub(t1, t0)
        t2t1 == Sub(t2, t1)
        t3t2 == Sub(t3, t2)
        Blend(wa, a, wb, b) == Add(Mul(wa, Num(a)), Mul(wb, Num(b)))
        Mix(wa, a, wb, b) == Add(Mul(wa, a), Mul(wb, b))
        A1x == Blend(Div(Sub(t1, tt), t1t0), p0.x, Div(Sub(tt, t0), t1t0), p1.x)
        A1y == Blend(Div(Sub(t1, tt), t1t0), p0.y, Div(Sub(tt, t0), t1t0), p1.y)
        A2x == Blend(Div(Sub(t2, tt), t2t1), p1.x, Div(Sub(tt, t1), t2t1), p2.x)
        A2y == Blend(Div(Sub(t2, tt), t2t1), p1.y, Div(Sub(tt, t1), t2t1), p2.y)
        A3x == Blend(Div(Sub(t3, tt), t3t2), p2.x, Div(Sub(tt, t2), t3t2), p3.x)
        A3y == Blend(Div(Sub(t3, tt), t3t2), p2.y, Div(Sub(tt, t2), t3t2), p3.y)
        B1x == Mix(Div(Sub(t2, tt), Sub(t2, t0)), A1x, Div(Sub(tt, t0), Sub(t2, t0)), A2x)
        B1y == Mix(Div(Sub(t2, tt), Sub(t2, t0)), A1y, Div(Sub(tt, t0), Sub(t2, t0)), A2y)
        B2x == Mix(Div(Sub(t3, tt), Sub(t3, t1)), A2x, Div(Sub(tt, t1), Sub(t3, t1)), A3x)
        B2y == Mix(Div(Sub(t3, tt), Sub(t3, t1)), A2y, Div(Sub(tt, t1), Sub(t3, t1)), A3y)
        linearX == Blend(Sub(Num(1), tt), p1.x, tt, p2.x)
        linearY == Blend(Sub(Num(1), tt), p1.y, tt, p2.y)
        curvedX == Mix(Div(Sub(t2, tt), Sub(t2, t1)), B1x, Div(Sub(tt, t1), Sub(t2, t1)), B2x)
        curvedY == Mix(Div(Sub(t2, tt), Sub(t2, t1)), B1y, Div(Sub(tt, t1), Sub(t2, t1)), B2y)
    IN  [x |-> Mix(linearX, Sub(Num(1), tension), curvedX, tension),
         y |-> Mix(linearY, Sub(Num(1), tension), curvedY, tension)]

\* The control points of the segment that starts at points[i] (i from 1):
\* the neighbours, or the end points themselves at the ends of the list
ControlPoints(points, i) ==
    [p0 |-> points[IF i - 1 >= 1 THEN i - 1 ELSE 1],
     p1 |-> points[i],
     p2 |-> points[i + 1],
     p3 |-> points[IF i + 2 <= Len(points) THEN i + 2 ELSE Len(points)]]

\* The knot differences catmullRomCentripetal divides by for control
\* points c: t1 - t0, t2 - t1, t3 - t2, t2 - t0 and t3 - t1
KnotDivisors(c) ==
    LET t0 == Num(0)
        t1 == Add(t0, PowHalf(distance(c.p0, c.p1)))
        t2 == Add(t1, PowHalf(distance(c.p1, c.p2)))
        t3 == Add(t2, PowHalf(distance(c.p2, c.p3)))
    IN  {Sub(t1, t0), Sub(t2, t1), Sub(t3, t2), Sub(t2, t0), Sub(t3, t1)}

\* The divisors of the calls generateSmoothPath makes: one set of control
\* points per segment
SmoothPathDivisors(points) ==
    IF Len(points) < 2 THEN {}
    ELSE UNION {KnotDivisors(ControlPoints(points, i)) : i \in 1..(Len(points) - 1)}

\* The divisors of the call getPositionAtArcLength makes, if it makes one
PositionDivisors(points, distances, targetLength) ==
    IF Len(points) < 2 THEN {}
    ELSE
        LET target == Max(Num(0), Min(targetLength, distances[Len(distances)]))
            reaching == {i \in 2..Len(distances) : Ge(distances[i], target)}
            segmentIndex == IF reaching = {} THEN 1 ELSE SetMin(reaching) - 1
        IN  IF segmentIndex >= Len(points) THEN {}
            ELSE IF Eq(Sub(distances[segmentIndex + 1], distances[segmentIndex]), Num(0))
            THEN {}
            ELSE KnotDivisors(ControlPoints(points, segmentIndex))

\* getPositionAtArcLength(points, distances, targetLength)
getPositionAtArcLength(points, distances, targetLength) ==
    IF Len(points) = 0 THEN NumPoint([x |-> 0, y |-> 0])
    ELSE IF Len(points) = 1 THEN NumPoint(points[1])
    ELSE
        LET totalLength == distances[Len(distances)]
            target == Max(Num(0), Min(targetLength, totalLength))
            reaching == {i \in 2..Len(distances) : Ge(distances[i], target)}
            segmentIndex == IF reaching = {} THEN 1 ELSE SetMin(reaching) - 1
        IN  IF segmentIndex >= Len(points) THEN NumPoint(points[Len(points)])
            ELSE
                LET segmentStartLength == distances[segmentIndex]
                    segmentEndLength == distances[segmentIndex + 1]
                    segmentLength == Sub(segmentEndLength, segmentStartLength)
                    t == Div(Sub(target, segmentStartLength), segmentLength)
                    c == ControlPoints(points, segmentIndex)
                IN  IF Eq(segmentLength, Num(0)) THEN NumPoint(points[segmentIndex])
                    ELSE catmullRomCentripetal(c.p0, c.p1, c.p2, c.p3, t, Frac(1, 2))

\* Mutant of generateSmoothPath: the start point of every segment is pushed,
\* not only that of the first
generateSmoothPath_EveryStart(points, pointsPerSegment, tension) ==
    IF Len(points) < 2 THEN [k \in 1..Len(points) |-> NumPoint(points[k])]
    ELSE [k \in 1..((Len(points) - 1) * (pointsPerSegment + 1)) |->
            LET i == ((k - 1) \div (pointsPerSegment + 1)) + 1
                j == (k - 1) % (pointsPerSegment + 1)
                c == ControlPoints(points, i)
            IN  IF j = 0 THEN NumPoint(points[i])
                ELSE catmullRomCentripetal(c.p0, c.p1, c.p2, c.p3,
                                           Frac(j, pointsPerSegment), tension)]

\* generateSmoothPath(points, pointsPerSegment, tension): the first point,
\* then pointsPerSegment curve points for each segment
generateSmoothPath(points, pointsPerSegment, tension) ==
    IF Len(points) < 2 THEN [k \in 1..Len(points) |-> NumPoint(points[k])]
    ELSE [k \in 1..((Len(points) - 1) * pointsPerSegment + 1) |->
            IF k = 1 THEN NumPoint(points[1])
            ELSE LET i == ((k - 2) \div pointsPerSegment) + 1
                     j == ((k - 2) % pointsPerSegment) + 1
                     c == ControlPoints(points, i)
                 IN  catmullRomCentripetal(c.p0, c.p1, c.p2, c.p3,
                                           Frac(j, pointsPerSegment), tension)]

---------------------------------------------------------------------------
(* Geometry harness: the functions applied to bounded point lists *)

\* Longest point list, highest density, and the range of target lengths
\* (in halves of a pixel)
MaxPoints == 4
MaxDensity == 2
MaxTargetHalves == 18

\* Points of a grid with columns 4 apart and rows 1 apart
GridPoints == {[x |-> x, y |-> y] : x \in {0, 4}, y \in {0, 1}}

\* Consecutive points stay on a grid line (or repeat), so every distance
\* and its square root is an integer
PointLists ==
    {l \in UNION {[1..n -> GridPoints] : n \in 0..MaxPoints} :
        \A i \in 2..Len(l) : l[i].x = l[i - 1].x \/ l[i].y = l[i - 1].y}

Densities == 1..MaxDensity
Tensions == {Num(0), Frac(1, 2), Num(1)}
TargetLengths == {Frac(k, 2) : k \in (-2)..MaxTargetHalves}

GeometryInit ==
    /\ RuntimeIdle
    /\ build \in {Some([points |-> l]) : l \in PointLists}
    /\ query = Null
    /\ updStart = Null
    /\ stepTrace = <<>>
    /\ rtB = Null
    /\ run = Null

ArcTable ==
    /\ query = Null
    /\ query' = Some([op |-> "buildArcLengthTable",
                      table |-> buildArcLengthTable(Val(build).points)])
    /\ UNCHANGED <<rt, lastOp, build, updStart, stepTrace, rtB, run>>

SmoothPath ==
    /\ query = Null
    /\ \E d \in Densities, tension \in Tensions :
        query' = Some([op |-> "generateSmoothPath", density |-> d, tension |-> tension,
                       path |-> generateSmoothPath(Val(build).points, d, tension),
                       divisors |-> SmoothPathDivisors(Val(build).points)])
    /\ UNCHANGED <<rt, lastOp, build, updStart, stepTrace, rtB, run>>

PositionAt ==
    /\ query = Null
    /\ \E target \in TargetLengths :
        LET distances == buildArcLengthTable(Val(build).points)
        IN  query' = Some([op |-> "getPositionAtArcLength", targetLength |-> target,
                           totalLength |-> IF Len(distances) = 0 THEN Num(0)
                                           ELSE distances[Len(distances)],
                           position |-> getPositionAtArcLength(Val(build).points,
                                                               distances, target),
                           divisors |-> PositionDivisors(Val(build).points,
                                                         distances, target)])
    /\ UNCHANGED <<rt, lastOp, build, updStart, stepTrace, rtB, run>>

\* Local parameters of a curve segment
CurveParams == {Frac(j, MaxDensity) : j \in 0..MaxDensity}

\* catmullRomCentripetal on four control points, as in the first and the
\* fifth geometry test
CurvePoint ==
    /\ query = Null
    /\ Len(Val(build).points) = 4
    /\ \E u \in CurveParams, tension \in Tensions :
        LET p == Val(build).points
        IN  query' = Some([op |-> "catmullRomCentripetal", u |-> u, tension |-> tension,
                           point |-> catmullRomCentripetal(p[1], p[2], p[3], p[4],
                                                           u, tension)])
    /\ UNCHANGED <<rt, lastOp, build, updStart, stepTrace, rtB, run>>

GeometryNext == ArcTable \/ SmoothPath \/ PositionAt \/ CurvePoint

GeometrySpec == GeometryInit /\ [][GeometryNext]_vars

---------------------------------------------------------------------------
(* Properties of the geometry functions, checked under GeometrySpec *)

GivenPoints == Val(build).points

Applied(op) == query # Null /\ Val(query).op = op

SquaredDistance(a, b) == (b.x - a.x) * (b.x - a.x) + (b.y - a.y) * (b.y - a.y)

\* C22: buildArcLengthTable(points) has one entry per point, the first is 0,
\* every entry is the one before plus the distance between the two points,
\* so the table never decreases, and a repeated point adds 0.
C22_ArcLengthTable ==
    Applied("buildArcLengthTable") =>
        LET table == Val(query).table
        IN  /\ Len(table) = Len(GivenPoints)
            /\ Len(table) >= 1 => table[1] = Num(0)
            /\ \A i \in 2..Len(table) :
                LET added == Sub(table[i], table[i - 1])
                IN  /\ Ge(added, Num(0))
                    /\ Mul(added, added) = Num(SquaredDistance(GivenPoints[i - 1], GivenPoints[i]))
                    /\ Le(table[i - 1], table[i])
                    /\ GivenPoints[i] = GivenPoints[i - 1] => table[i] = table[i - 1]

\* C22 witness: a table of the longest list, over a leg that runs towards
\* smaller coordinates, a repeated point and a leg of the other length
C22_Witness ==
    /\ Applied("buildArcLengthTable")
    /\ Len(GivenPoints) = MaxPoints
    /\ GivenPoints[2].x < GivenPoints[1].x
    /\ GivenPoints[3] = GivenPoints[2]
    /\ Val(query).table[3] = Num(4)
    /\ Val(query).table[MaxPoints] = Num(5)

\* C23: for n >= 2 points, density d and tension in [0, 1], the output
\* of smoothCurve at index i*d equals input point i, for every i in 0..n-1.
C23_PassesThroughPoints ==
    (Applied("generateSmoothPath") /\ Len(GivenPoints) >= 2) =>
        \A i \in 0..(Len(GivenPoints) - 1) :
            /\ i * Val(query).density + 1 \in DOMAIN Val(query).path
            /\ Val(query).path[i * Val(query).density + 1] = NumPoint(GivenPoints[i + 1])

\* C24: for at least 2 points, positionAtArcLength returns the first point
\* for every targetLength <= 0 and the last point for every
\* targetLength >= totalLength.
C24_ExactEnds ==
    (Applied("getPositionAtArcLength") /\ Len(GivenPoints) >= 2) =>
        /\ Le(Val(query).targetLength, Num(0)) =>
              Val(query).position = NumPoint(GivenPoints[1])
        /\ Ge(Val(query).targetLength, Val(query).totalLength) =>
              Val(query).position = NumPoint(GivenPoints[Len(GivenPoints)])


---------------------------------------------------------------------------
(* The playback clock in binary64 arithmetic.

   time, 1 / fps and totalDuration are doubles.  The values the clock takes
   in the runs below are multiples of 2^-58; such a value is held exactly,
   as a count of units of 2^-58 written in three digits of base 2^20. *)

Limb == 1048576

Big(a, b, c) == [a |-> a, b |-> b, c |-> c]

\* Carries propagated, so that the two lower digits are below the base
BigNorm(a, b, c) ==
    LET b0 == b + (c \div Limb)
    IN  Big(a + (b0 \div Limb), b0 % Limb, c % Limb)

BigAdd(x, y) == BigNorm(x.a + y.a, x.b + y.b, x.c + y.c)

\* x * k for a small natural k
BigTimes(x, k) == BigNorm(x.a * k, x.b * k, x.c * k)

\* x >= y
BigGe(x, y) ==
    \/ x.a > y.a
    \/ x.a = y.a /\ x.b > y.b
    \/ x.a = y.a /\ x.b = y.b /\ x.c >= y.c

\* Number of binary digits of a natural below 2^30
BitLength(n) == CHOOSE k \in 0..30 : n < 2^k /\ (k = 0 \/ n >= 2^(k - 1))

BigBits(x) ==
    IF x.a > 0 THEN 40 + BitLength(x.a)
    ELSE IF x.b > 0 THEN 20 + BitLength(x.b)
    ELSE BitLength(x.c)

\* The double nearest to an exact value: 53 significant bits are kept, the
\* rest is rounded to nearest, ties to even
RoundBinary64(x) ==
    LET drop == BigBits(x) - 53
    IN  IF drop <= 0 THEN x
        ELSE LET unit == 2^drop
                 rest == x.c % unit
                 odd == (x.c \div unit) % 2 = 1
                 up == 2 * rest > unit \/ (2 * rest = unit /\ odd)
             IN  BigNorm(x.a, x.b, (x.c - rest) + (IF up THEN unit ELSE 0))

\* a + b of two doubles
AddBinary64(x, y) == RoundBinary64(BigAdd(x, y))

\* A whole number of seconds
Seconds(n) == Big(n * 262144, 0, 0)

\* The double 1.0 / fps for 8 < fps <= 16, in units of 2^-56 (its 53-bit
\* significand): 2^56 / fps by long division, rounded to nearest
Reciprocal(fps) ==
    LET qa == 65536 \div fps
        ra == 65536 % fps
        qb == (ra * Limb) \div fps
        rb == (ra * Limb) % fps
        qc == (rb * Limb) \div fps
        rc == (rb * Limb) % fps
        up == 2 * rc > fps \/ (2 * rc = fps /\ qc % 2 = 1)
    IN  BigNorm(qa, qb, qc + (IF up THEN 1 ELSE 0))

\* The clock of a runtime whose map is installed: the fields step() reads
\* and writes to settle time, isPlaying and frame.  speed is
\* speedQuarters / 4, a power of two
NewClock(fps, totalSeconds, speedQuarters) ==
    [fps |-> fps, totalDuration |-> Seconds(totalSeconds), totalSeconds |-> totalSeconds,
     speedQuarters |-> speedQuarters, time |-> Seconds(0), isPlaying |-> FALSE, frame |-> 0]

\* getFixedTimeStep() * speed: exact, the speed being a power of two
ScaledTimeStep(c) == BigTimes(Reciprocal(c.fps), c.speedQuarters)

\* play()
playClock(c) == [c EXCEPT !.isPlaying = TRUE]

\* step() on the clock: time += dt, the clamp to totalDuration, frame++.
\* (normalizedProgress and currentSegmentIndex are computed from the new
\* time afterwards and are not read back by step().)
stepClock(c) ==
    IF ~c.isPlaying THEN c
    ELSE LET time == AddBinary64(c.time, ScaledTimeStep(c))
         IN  IF BigGe(time, c.totalDuration)
             THEN [c EXCEPT !.time = c.totalDuration, !.isPlaying = FALSE, !.frame = @ + 1]
             ELSE [c EXCEPT !.time = time, !.frame = @ + 1]

\* getTotalFrames(): Math.ceil(totalDuration * fps), exact for a whole
\* number of seconds
getTotalFramesOfClock(c) == c.totalSeconds * c.fps

\* Playback frame rate and the longest map, in seconds
PlayFps == 10
MaxPlaySeconds == 3

\* Speeds of the range [0.25, 8] that are powers of two, in quarters
PlaySpeedQuarters == {1, 2, 4, 8, 16, 32}

PlayInit ==
    /\ RuntimeIdle
    /\ run \in {Some(NewClock(PlayFps, total, q)) :
                    total \in 1..MaxPlaySeconds, q \in PlaySpeedQuarters}
    /\ build = Null
    /\ query = Null
    /\ updStart = Null
    /\ stepTrace = <<>>
    /\ rtB = Null

\* play() from Ready
PlayStart ==
    /\ lastOp = "new"
    /\ run' = Some(playClock(Val(run)))
    /\ lastOp' = "play"
    /\ UNCHANGED <<rt, build, query, updStart, stepTrace, rtB>>

\* step() once playback was started
PlayStep ==
    /\ lastOp \in {"play", "step"}
    /\ run' = Some(stepClock(Val(run)))
    /\ lastOp' = "step"
    /\ UNCHANGED <<rt, build, query, updStart, stepTrace, rtB>>

PlayNext == PlayStart \/ PlayStep

PlaySpec == PlayInit /\ [][PlayNext]_vars

\* The clock has reached the Ended state
Ended(c) == c.time = c.totalDuration /\ ~c.isPlaying

\* C28: from Ready on a map with totalDuration > 0, after play() at
\* speed 1, repeated step() calls reach time = totalDuration with isPlaying
\* false after exactly getTotalFrames() = ceil(totalDuration * fps) steps,
\* and not earlier.
C28_EndsAtTotalFrames ==
    (lastOp \in {"play", "step"} /\ Val(run).speedQuarters = 4 /\ Val(run).isPlaying) =>
        Val(run).frame < getTotalFramesOfClock(Val(run))


---------------------------------------------------------------------------
(* Demo 3 of runRuntimeDemo (speed multipliers) run on a used runtime:     *)
(* reset, play, five steps, reset, setSpeed(2.0), five steps               *)

\* Steps of each half of the demo
DemoSteps == 5

\* Runtimes with a map installed, as earlier calls and previews left them
DemoStarts ==
    UsedRuntimes \cup {update(update(u, Num(0)).rt, Num(1250)).rt : u \in UsedRuntimes}

\* Position in the script: the number of calls made
DemoStage == Val(run).stage

DemoLength == 2 * DemoSteps + 4

DemoInit ==
    /\ rt \in DemoStarts
    /\ lastOp = "new"
    /\ run = Some([stage |-> 0, wasPlaying |-> FALSE])
    /\ build = Null
    /\ query = Null
    /\ updStart = Null
    /\ stepTrace = <<>>
    /\ rtB = Null

DemoAdvance == run' = Some([Val(run) EXCEPT !.stage = @ + 1])

\* runtime.reset(), first and eighth call; whether playback was on when it
\* was called is noted
DemoReset ==
    /\ DemoStage \in {0, DemoSteps + 2}
    /\ rt' = reset(rt)
    /\ lastOp' = "reset"
    /\ run' = Some([stage |-> DemoStage + 1, wasPlaying |-> rt.state.isPlaying])
    /\ UNCHANGED <<build, query, updStart, stepTrace, rtB>>

\* runtime.play()
DemoPlay ==
    /\ DemoStage = 1
    /\ rt' = play(rt)
    /\ lastOp' = "play"
    /\ DemoAdvance
    /\ UNCHANGED <<build, query, updStart, stepTrace, rtB>>

\* runtime.setSpeed(2.0)
DemoSetSpeed ==
    /\ DemoStage = DemoSteps + 3
    /\ rt' = setSpeed(rt, Num(2))
    /\ lastOp' = "setSpeed"
    /\ DemoAdvance
    /\ UNCHANGED <<build, query, updStart, stepTrace, rtB>>

\* runtime.step() in the two loops
DemoStep ==
    /\ DemoStage \in (2..(DemoSteps + 1)) \cup ((DemoSteps + 4)..(DemoLength - 1))
    /\ rt' = step(rt)
    /\ lastOp' = "step"
    /\ DemoAdvance
    /\ UNCHANGED <<build, query, updStart, stepTrace, rtB>>

DemoNext == DemoReset \/ DemoPlay \/ DemoSetSpeed \/ DemoStep

DemoSpec == DemoInit /\ [][DemoNext]_vars

\* reset() zeroes the clock, clears the accumulator and the last timestamp,
\* and leaves isPlaying and speed as they were
C31_ResetEffect ==
    [][lastOp' = "reset" =>
          /\ rt'.state.time = Num(0)
          /\ rt'.state.normalizedProgress = Num(0)
          /\ rt'.state.currentSegmentIndex = 0
          /\ rt'.state.frame = 0
          /\ rt'.accumulatedTime = Num(0)
          /\ rt'.lastTimestamp = Null
          /\ rt'.state.isPlaying = rt.state.isPlaying
          /\ rt'.state.speed = rt.state.speed]_vars

\* At the end of the demo, if playback was on at the second reset and the
\* map is longer than 10/fps, the clock stands at 10/fps and playback is
\* still on
C31_DemoEndsAtTen ==
    (DemoStage = DemoLength
        /\ Val(run).wasPlaying
        /\ Lt(Div(Num(2 * DemoSteps), Num(Fps)), rt.config.totalDuration)) =>
        /\ rt.state.time = Div(Num(2 * DemoSteps), Num(Fps))
        /\ rt.state.frame = DemoSteps
        /\ rt.state.isPlaying

---------------------------------------------------------------------------
(* Further properties of the geometry functions, checked under GeometrySpec *)

\* The sample of the curve between input points i and i + 1 at j / density
SampleOfPair(i, j) ==
    catmullRomCentripetal(GivenPoints[IF i > 1 THEN i - 1 ELSE 1], GivenPoints[i],
                          GivenPoints[i + 1],
                          GivenPoints[IF i + 2 <= Len(GivenPoints) THEN i + 2
                                      ELSE Len(GivenPoints)],
                          Frac(j, Val(query).density), Val(query).tension)

\* C32: smoothCurve returns fewer than 2 points unchanged; for n >= 2
\* points and density d the output has exactly 1 + (n-1)*d points: the first
\* input point, then d samples for each consecutive pair of input points.
C32_SmoothPathSize ==
    Applied("generateSmoothPath") =>
        LET n == Len(GivenPoints)
            d == Val(query).density
            path == Val(query).path
        IN  IF n < 2
            THEN /\ Len(path) = n
                 /\ \A k \in 1..n : path[k] = NumPoint(GivenPoints[k])
            ELSE /\ Len(path) = 1 + (n - 1) * d
                 /\ path[1] = NumPoint(GivenPoints[1])
                 /\ \A i \in 1..(n - 1) : \A j \in 1..d :
                        path[1 + (i - 1) * d + j] = SampleOfPair(i, j)

\* C32 witness: the longest list at the highest density, and a finite
\* sample of an interior pair in the output
C32_Witness ==
    /\ Applied("generateSmoothPath")
    /\ Len(GivenPoints) = MaxPoints
    /\ Val(query).density = MaxDensity
    /\ Len(Val(query).path) = 1 + (MaxPoints - 1) * MaxDensity
    /\ IsFinite(Val(query).path[2 + MaxDensity].x)
    /\ Val(query).path[2 + MaxDensity] # NumPoint(GivenPoints[2])


\* (1 - u) * a + u * b
Chord(a, b, u) ==
    [x |-> Add(Mul(Sub(Num(1), u), Num(a.x)), Mul(u, Num(b.x))),
     y |-> Add(Mul(Sub(Num(1), u), Num(a.y)), Mul(u, Num(b.y)))]

\* C33: with tension 0, catmullRomCentripetal(p0, p1, p2, p3, u, 0) is the
\* chord point (1-u)*p1 + u*p2 for every u in [0, 1], whatever the
\* distances between the control points.
C33_TensionZeroIsChord ==
    (Applied("catmullRomCentripetal") /\ Val(query).tension = Num(0)) =>
        Val(query).point = Chord(GivenPoints[2], GivenPoints[3], Val(query).u)

PairwiseDistinct(points) ==
    \A i, j \in 1..Len(points) : i # j => points[i] # points[j]

\* C39: when smoothCurve or positionAtArcLength evaluates the curve on
\* pairwise distinct points, none of the knot differences used as divisors
\* is zero.
C39_NoZeroDivisor ==
    ((Applied("generateSmoothPath") \/ Applied("getPositionAtArcLength"))
        /\ PairwiseDistinct(GivenPoints)) =>
        Num(0) \notin Val(query).divisors


---------------------------------------------------------------------------
(* A preview that is paused and resumed: update(t1) while playing,         *)
(* pause(), play(), update(t2)                                             *)

\* Playing runtimes with a map installed
ResumeStarts == {u \in UsedRuntimes : u.state.isPlaying}

ResumeStage == Val(run).stage

ResumeInit ==
    /\ rt \in ResumeStarts
    /\ lastOp = "new"
    /\ run = Some([stage |-> 0, t1 |-> Num(0), t2 |-> Num(0), frameAtResume |-> 0])
    /\ build = Null
    /\ query = Null
    /\ updStart = Null
    /\ stepTrace = <<>>
    /\ rtB = Null

\* update(t1) while playing
ResumeFirstUpdate ==
    /\ ResumeStage = 0
    /\ \E t1 \in PreviewTimestamps :
        /\ StepsOwed(rt, t1) <= MaxTrace
        /\ rt' = update(rt, t1).rt
        /\ run' = Some([Val(run) EXCEPT !.stage = 1, !.t1 = t1])
    /\ lastOp' = "update"
    /\ UNCHANGED <<build, query, updStart, stepTrace, rtB>>

\* pause()
ResumePause ==
    /\ ResumeStage = 1
    /\ rt' = pause(rt)
    /\ run' = Some([Val(run) EXCEPT !.stage = 2])
    /\ lastOp' = "pause"
    /\ UNCHANGED <<build, query, updStart, stepTrace, rtB>>

\* play(); the frame counter at this moment is noted
ResumePlay ==
    /\ ResumeStage = 2
    /\ rt' = play(rt)
    /\ run' = Some([Val(run) EXCEPT !.stage = 3, !.frameAtResume = rt.state.frame])
    /\ lastOp' = "play"
    /\ UNCHANGED <<build, query, updStart, stepTrace, rtB>>

\* update(t2), t2 not before t1
ResumeSecondUpdate ==
    /\ ResumeStage = 3
    /\ \E t2 \in PreviewTimestamps :
        /\ Ge(t2, Val(run).t1)
        /\ StepsOwed(rt, t2) <= MaxTrace
        /\ rt' = update(rt, t2).rt
        /\ run' = Some([Val(run) EXCEPT !.stage = 4, !.t2 = t2])
    /\ lastOp' = "update"
    /\ UNCHANGED <<build, query, updStart, stepTrace, rtB>>

ResumeNext == ResumeFirstUpdate \/ ResumePause \/ ResumePlay \/ ResumeSecondUpdate

ResumeSpec == ResumeInit /\ [][ResumeNext]_vars

\* C34: wall-clock time spent paused is not replayed: the first update()
\* after pause() and play() makes no more step() calls than the first
\* update() after a fresh play() (none), however long the pause was.
C34_PauseNotReplayed ==
    ResumeStage = 4 => rt.state.frame = Val(run).frameAtResume

====
